---- MODULE Spec2Model ----
(***************************************************************************)
(* A model of the inkress-sdk repository: the JWT verifier of              *)
(* src/utils/jwt.ts (jwtVerify, verifySignature, decodeJWT and the two     *)
(* crypto backends) and the Inkress facade (src/README.md lines 137-347,   *)
(* the TypeScript source of the latest revision; src/dist/index.js lines   *)
(* 252-427 is its compiled form).                                          *)
(*                                                                         *)
(* Strings are sequences of one-character strings, buffers are sequences   *)
(* of bytes (0..255).  base64 and base64url are computed sextet by sextet, *)
(* String.split is computed on the characters, JSON.stringify is computed  *)
(* on a small document algebra and JSON.parse is its inverse on the        *)
(* documents of the model (any other text is a SyntaxError).               *)
(***************************************************************************)
EXTENDS Integers, Sequences, FiniteSets, TLC

(***************************************************************************)
(* Characters and bytes                                                    *)
(***************************************************************************)

\* The printable ASCII characters, code 32 first (the backslash and the
\* backtick are written as symbols).
Ascii ==
  << " ", "!", "\"", "#", "$", "%", "&", "'", "(", ")", "*", "+", ",", "-", ".", "/",
     "0", "1", "2", "3", "4", "5", "6", "7", "8", "9", ":", ";", "<", "=", ">", "?",
     "@", "A", "B", "C", "D", "E", "F", "G", "H", "I", "J", "K", "L", "M", "N", "O",
     "P", "Q", "R", "S", "T", "U", "V", "W", "X", "Y", "Z", "[", "<backslash>", "]", "^", "_",
     "<backtick>", "a", "b", "c", "d", "e", "f", "g", "h", "i", "j", "k", "l", "m", "n", "o",
     "p", "q", "r", "s", "t", "u", "v", "w", "x", "y", "z", "{", "|", "}", "~" >>

\* U+0000, and the character a decoder yields for a byte that is no
\* printable ASCII character (U+FFFD or some non-ASCII character).
NulChar == "<NUL>"
NonAscii == "<U+FFFD>"

AsciiChars == {Ascii[i] : i \in 1..Len(Ascii)}

CodeTable ==
  [c \in AsciiChars \cup {NulChar} |->
     IF c = NulChar THEN 0 ELSE 31 + (CHOOSE i \in 1..Len(Ascii) : Ascii[i] = c)]

CharOfByte(b) ==
  IF b = 0 THEN NulChar
  ELSE IF b >= 32 /\ b <= 126 THEN Ascii[b - 31] ELSE NonAscii

\* crypto.textToBuffer: the UTF-8 bytes of a text (ASCII and U+0000 here).
textToBuffer(text) == [i \in 1..Len(text) |-> CodeTable[text[i]]]

\* crypto.bufferToText: UTF-8 decoding, which never throws (Buffer.toString
\* and a non-fatal TextDecoder both substitute U+FFFD).
bufferToText(buffer) == [i \in 1..Len(buffer) |-> CharOfByte(buffer[i])]

Repeat(c, n) == [i \in 1..n |-> c]

\* String.prototype.replace with a global single-character pattern.
ReplaceAll(s, from, to) == [i \in 1..Len(s) |-> IF s[i] = from THEN to ELSE s[i]]

\* String.prototype.replace(/=/g, '').
RemoveAll(s, c) == SelectSeq(s, LAMBDA x : x # c)

(***************************************************************************)
(* String.prototype.split('.')                                             *)
(***************************************************************************)

DotPositions(s) == {i \in 1..Len(s) : s[i] = "."}

\* The k-th separator position, 0 before the first and Len+1 after the last.
NthDot(s, k) ==
  IF k = 0 THEN 0
  ELSE IF k > Cardinality(DotPositions(s)) THEN Len(s) + 1
  ELSE CHOOSE i \in DotPositions(s) :
         Cardinality({j \in DotPositions(s) : j <= i}) = k

\* split('.', 3): at most three segments, the rest dropped.
splitLimit3(s) ==
  [k \in 1..(IF Cardinality(DotPositions(s)) >= 2 THEN 3
             ELSE Cardinality(DotPositions(s)) + 1) |->
     SubSeq(s, NthDot(s, k - 1) + 1, NthDot(s, k) - 1)]

split(s) ==
  [k \in 1..(Cardinality(DotPositions(s)) + 1) |->
     SubSeq(s, NthDot(s, k - 1) + 1, NthDot(s, k) - 1)]

(***************************************************************************)
(* base64                                                                  *)
(***************************************************************************)

B64Std ==
  << "A", "B", "C", "D", "E", "F", "G", "H", "I", "J", "K", "L", "M", "N", "O", "P",
     "Q", "R", "S", "T", "U", "V", "W", "X", "Y", "Z", "a", "b", "c", "d", "e", "f",
     "g", "h", "i", "j", "k", "l", "m", "n", "o", "p", "q", "r", "s", "t", "u", "v",
     "w", "x", "y", "z", "0", "1", "2", "3", "4", "5", "6", "7", "8", "9", "+", "/" >>

B64Chars == {B64Std[i] : i \in 1..Len(B64Std)}

B64Value == [c \in B64Chars |-> (CHOOSE i \in 1..Len(B64Std) : B64Std[i] = c) - 1]

\* The bytes of a sequence of sextets: each full group of four gives three
\* bytes, a rest of two gives one byte, a rest of three gives two bytes and
\* a rest of one gives none (its bits are dropped).
BytesOfSextets(q) ==
  LET n == Len(q)
      rest == n % 4
      count == 3 * (n \div 4) + (IF rest = 2 THEN 1 ELSE IF rest = 3 THEN 2 ELSE 0)
      byte(k) ==
        LET j == 4 * ((k - 1) \div 3)
            p == (k - 1) % 3
        IN  IF p = 0 THEN (q[j + 1] * 4) + (q[j + 2] \div 16)
            ELSE IF p = 1 THEN ((q[j + 2] % 16) * 16) + (q[j + 3] \div 4)
            ELSE ((q[j + 3] % 4) * 64) + q[j + 4]
  IN  [k \in 1..count |-> byte(k)]

\* Buffer.toString('base64') and btoa: the padded base64 text of a buffer.
Base64Encode(bytes) ==
  LET n == Len(bytes)
      at(i) == IF i <= n THEN bytes[i] ELSE 0
      char(k) ==
        LET j == 3 * ((k - 1) \div 4)
            p == (k - 1) % 4
            b0 == at(j + 1)
            b1 == at(j + 2)
            b2 == at(j + 3)
        IN  IF p = 0 THEN B64Std[(b0 \div 4) + 1]
            ELSE IF p = 1 THEN B64Std[((b0 % 4) * 16) + (b1 \div 16) + 1]
            ELSE IF p = 2
              THEN IF j + 2 > n THEN "=" ELSE B64Std[((b1 % 16) * 4) + (b2 \div 64) + 1]
            ELSE IF j + 3 > n THEN "=" ELSE B64Std[(b2 % 64) + 1]
  IN  [k \in 1..(4 * ((n + 2) \div 3)) |-> char(k)]

\* Node's Buffer.from(text, 'base64'): it accepts both alphabets, skips
\* every character that is no base64 character, stops at the first "=" and
\* never throws.
NodeUnbase64(c) ==
  IF c \in B64Chars THEN B64Value[c]
  ELSE IF c = "-" THEN 62
  ELSE IF c = "_" THEN 63
  ELSE -1

BufferFromBase64(text) ==
  LET pads == {i \in 1..Len(text) : text[i] = "="}
      stop == IF pads = {} THEN Len(text) + 1
              ELSE CHOOSE i \in pads : \A j \in pads : i <= j
      legal == SelectSeq(SubSeq(text, 1, stop - 1), LAMBDA c : NodeUnbase64(c) >= 0)
  IN  BytesOfSextets([i \in 1..Len(legal) |-> NodeUnbase64(legal[i])])

\* The browser's atob (forgiving-base64 decode): ASCII whitespace is
\* removed, one or two trailing "=" are removed when the length is a
\* multiple of four, and a length of 1 mod 4 or any character outside the
\* standard alphabet throws InvalidCharacterError.
atob(text) ==
  LET s == RemoveAll(text, " ")
      n == Len(s)
      cut == IF n % 4 = 0 /\ n >= 2 /\ s[n] = "=" /\ s[n - 1] = "=" THEN 2
             ELSE IF n % 4 = 0 /\ n >= 1 /\ s[n] = "=" THEN 1
             ELSE 0
      data == SubSeq(s, 1, n - cut)
  IN  IF Len(data) % 4 = 1 \/ \E i \in 1..Len(data) : data[i] \notin B64Chars
      THEN [ok |-> FALSE, bytes |-> << >>]
      ELSE [ok |-> TRUE,
            bytes |-> BytesOfSextets([i \in 1..Len(data) |-> B64Value[data[i]]])]

(***************************************************************************)
(* JavaScript values, JSON.stringify and JSON.parse                        *)
(***************************************************************************)

\* A JavaScript value: t is its type, s the text of a string, n the value
\* of a number, m the members of an object in insertion order, each a
\* record [k |-> key text, v |-> value].
JUndefined == [t |-> "undefined", s |-> << >>, n |-> 0, m |-> << >>]
JNull == [t |-> "null", s |-> << >>, n |-> 0, m |-> << >>]
JStr(text) == [t |-> "string", s |-> text, n |-> 0, m |-> << >>]
JNum(num) == [t |-> "number", s |-> << >>, n |-> num, m |-> << >>]
JObj(members) == [t |-> "object", s |-> << >>, n |-> 0, m |-> members]
Member(key, val) == [k |-> key, v |-> val]

\* value.key, for a value that is neither null nor undefined: the member of
\* an object, undefined when it has none and for a primitive.
GetProp(val, key) ==
  IF val.t = "object" /\ \E i \in 1..Len(val.m) : val.m[i].k = key
  THEN val.m[CHOOSE i \in 1..Len(val.m) : val.m[i].k = key].v
  ELSE JUndefined

HasProp(val, key) == val.t = "object" /\ \E i \in 1..Len(val.m) : val.m[i].k = key

\* ToBoolean.
Truthy(val) ==
  IF val.t = "undefined" \/ val.t = "null" THEN FALSE
  ELSE IF val.t = "number" THEN val.n # 0
  ELSE IF val.t = "string" THEN val.s # << >>
  ELSE TRUE

RECURSIVE NatToText(_)
NatToText(num) ==
  IF num < 10 THEN << Ascii[17 + num] >>
  ELSE NatToText(num \div 10) \o << Ascii[17 + (num % 10)] >>

Quoted(text) == << "\"" >> \o text \o << "\"" >>

\* JSON.stringify of a value built from objects, strings, numbers and null
\* (strings hold no character that needs escaping): a member whose value
\* is undefined is left out, NaN and Infinity are written as null.
RECURSIVE JSONstringify(_)
RECURSIVE StringifyMembers(_, _)
StringifyMembers(members, i) ==
  IF i > Len(members) THEN << >>
  ELSE (IF i > 1 THEN << "," >> ELSE << >>)
       \o Quoted(members[i].k) \o << ":" >> \o JSONstringify(members[i].v)
       \o StringifyMembers(members, i + 1)
JSONstringify(val) ==
  IF val.t = "object"
  THEN << "{" >>
       \o StringifyMembers(SelectSeq(val.m, LAMBDA mem : mem.v.t # "undefined"), 1)
       \o << "}" >>
  ELSE IF val.t = "string" THEN Quoted(val.s)
  ELSE IF val.t = "number" /\ val.s = << >> THEN NatToText(val.n)
  ELSE << "n", "u", "l", "l" >>

\* String(value) inside a template literal.
ToText(val) ==
  IF val.t = "string" THEN val.s
  ELSE IF val.t = "undefined" THEN << "u", "n", "d", "e", "f", "i", "n", "e", "d" >>
  ELSE JSONstringify(val)

(***************************************************************************)
(* Errors and completions                                                  *)
(***************************************************************************)

Err(name, message, arg) == [name |-> name, message |-> message, arg |-> arg]
NoError == Err("", "", << >>)

ErrInvalidTokenFormat == Err("Error", "Invalid token format", << >>)
ErrAlgorithmNotSupported(alg) == Err("Error", "Algorithm not supported: ", ToText(alg))
ErrInvalidSignature == Err("Error", "Invalid signature", << >>)
ErrExpired == Err("Error", "Token has expired", << >>)
ErrNotYetValid == Err("Error", "Token not yet valid", << >>)
\* What the host throws: JSON.parse, atob, a property read of null and
\* crypto.subtle.importKey.
ErrSyntax == Err("SyntaxError", "JSON.parse", << >>)
ErrInvalidCharacter == Err("InvalidCharacterError", "atob", << >>)
ErrTypeError == Err("TypeError", "property of null", << >>)
ErrDataError == Err("DataError", "importKey", << >>)

\* A call that returned v, and a call that threw err (rest is a value of
\* the type the call returns, never read).
Ok(v) == [ok |-> TRUE, v |-> v, err |-> NoError]
Fail(err, rest) == [ok |-> FALSE, v |-> rest, err |-> err]

(***************************************************************************)
(* The crypto backends of src/utils/jwt.ts (isNode selects one)            *)
(***************************************************************************)

HS256 == << "H", "S", "2", "5", "6" >>
HS512 == << "H", "S", "5", "1", "2" >>

RECURSIVE StripTrailingZeros(_)
StripTrailingZeros(bytes) ==
  IF bytes # << >> /\ bytes[Len(bytes)] = 0
  THEN StripTrailingZeros(SubSeq(bytes, 1, Len(bytes) - 1))
  ELSE bytes

\* HMAC as an ideal keyed function: the digest is a byte string that names
\* the hash, the key block and the data, so that two digests are equal
\* exactly when hash, key block and data are.  HMAC pads the key with zero
\* bytes to the hash's block size, so keys (shorter than a block, as all
\* keys here are) that differ only in trailing zero bytes have one key
\* block.  The first byte is 1 for SHA-256 and 2 for SHA-512.
HMAC(hashAlg, keyBytes, dataBytes) ==
  LET block == StripTrailingZeros(keyBytes)
  IN  << IF hashAlg = "sha256" THEN 1 ELSE 2, Len(block) >> \o block \o dataBytes

\* crypto.hmacSign.  Node's createHmac takes any key; the browser's
\* crypto.subtle.importKey rejects an empty HMAC key with a DataError.
hmacSign(algorithm, key, data, isNode) ==
  LET hashAlg == IF algorithm = HS256 THEN "sha256" ELSE "sha512"
      digest == HMAC(hashAlg, textToBuffer(key), textToBuffer(data))
  IN  IF ~isNode /\ key = << >>
      THEN [ok |-> FALSE, v |-> << >>, err |-> ErrDataError, hash |-> hashAlg]
      ELSE [ok |-> TRUE, v |-> digest, err |-> NoError, hash |-> hashAlg]

\* Bit k of a byte.
Bit(x, k) == (x \div (2 ^ k)) % 2

RECURSIVE BitsToNumber(_)
BitsToNumber(bits) ==
  IF bits = {} THEN 0
  ELSE LET k == CHOOSE x \in bits : TRUE
       IN  (2 ^ k) + BitsToNumber(bits \ {k})

\* The browser's loop, result |= a8[i] ^ b8[i] for every i of a8: bit k of
\* the result is set exactly when some position differs in bit k.
XorFold(a8, b8) ==
  BitsToNumber({k \in 0..7 : \E i \in 1..Len(a8) : Bit(a8[i], k) # Bit(b8[i], k)})

\* A comparison that looks at the lengths only.
timingSafeEqualLengthOnly(a, b, isNode) == Len(a) = Len(b)

\* crypto.timingSafeEqual.
timingSafeEqual(a, b, isNode) ==
  IF Len(a) # Len(b) THEN FALSE
  ELSE IF isNode THEN a = b
  ELSE XorFold(a, b) = 0

\* A loop that stops after the first position where the buffers differ.
timingSafeEqualLoopEarlyExit(a8, b8) ==
  {i \in 1..Len(a8) : \A j \in 1..(i - 1) : a8[j] = b8[j]}

\* The positions the browser's loop reads, for (i = 0; i < a8.length; i++):
\* nothing in its body leaves the loop, so it reads every position.
timingSafeEqualLoop(a8, b8) == 1..Len(a8)

\* crypto.timingSafeEqual with the number of byte positions it compares:
\* none when the lengths differ, those of its loop in the browser (result
\* is the OR of a8[i] ^ b8[i] over them), and every one in Node's
\* crypto.timingSafeEqual, which is a constant-time comparison.
timingSafeEqualTrace(a, b, isNode) ==
  IF Len(a) # Len(b) THEN [equal |-> FALSE, compared |-> 0]
  ELSE IF isNode THEN [equal |-> a = b, compared |-> Len(a)]
  ELSE LET read == timingSafeEqualLoop(a, b)
           result == BitsToNumber({k \in 0..7 :
                                     \E i \in read : Bit(a[i], k) # Bit(b[i], k)})
       IN  [equal |-> result = 0, compared |-> Cardinality(read)]

\* crypto.base64UrlToBuffer.
base64UrlToBuffer(base64url, isNode) ==
  LET base64 == ReplaceAll(ReplaceAll(base64url, "-", "+"), "_", "/")
      paddedBase64 == base64 \o Repeat("=", (4 - (Len(base64) % 4)) % 4)
  IN  IF isNode THEN Ok(BufferFromBase64(paddedBase64))
      ELSE LET binary == atob(paddedBase64)
           IN  IF binary.ok THEN Ok(binary.bytes)
               ELSE Fail(ErrInvalidCharacter, << >>)

\* crypto.base64UrlDecode.
base64UrlDecode(base64url, isNode) ==
  LET buffer == base64UrlToBuffer(base64url, isNode)
  IN  IF buffer.ok THEN Ok(bufferToText(buffer.v)) ELSE buffer

\* crypto.bufferToBase64Url (both backends).
bufferToBase64Url(buffer) ==
  RemoveAll(ReplaceAll(ReplaceAll(Base64Encode(buffer), "+", "-"), "/", "_"), "=")

(***************************************************************************)
(* The documents of the model                                              *)
(***************************************************************************)

\* Bounds: the largest exp and nbf claim, in seconds, and the last second
\* the clock reaches.
MaxClaim == 2
MaxClock == 2

\* payload.exp * 1000 and payload.nbf * 1000: seconds to milliseconds.
MsPerSecond == 1000

AlgNone == << "n", "o", "n", "e" >>
RS256 == << "R", "S", "2", "5", "6" >>
KeyAlg == << "a", "l", "g" >>
KeyExp == << "e", "x", "p" >>
KeyNbf == << "n", "b", "f" >>
KeySub == << "s", "u", "b" >>

Absent == 0 - 1
ClaimValues == {Absent} \cup (0..MaxClaim)

HeaderOf(alg) == JObj(<< Member(KeyAlg, JStr(alg)) >>)
HeaderNoAlg == JObj(<< >>)

\* The claims {"sub":"1"[,"exp":e][,"nbf":n]}.
PayloadOf(e, n) ==
  JObj(<< Member(KeySub, JStr(<< "1" >>)) >>
       \o (IF e = Absent THEN << >> ELSE << Member(KeyExp, JNum(e)) >>)
       \o (IF n = Absent THEN << >> ELSE << Member(KeyNbf, JNum(n)) >>))

HeaderDocs == {HeaderOf(a) : a \in {HS256, HS512, AlgNone, RS256}} \cup {HeaderNoAlg}
PayloadDocs == {PayloadOf(e, n) : e \in ClaimValues, n \in ClaimValues}
\* What the orders API answers with.
ResponseDocs == {JObj(<< Member(<< "i", "d" >>, JNum(7)) >>)}

JsonDocs == HeaderDocs \cup PayloadDocs \cup ResponseDocs \cup {JNull}

JsonText == [d \in JsonDocs |-> JSONstringify(d)]

\* JSON.parse: the inverse of JSON.stringify on the documents of the model;
\* every other text the model feeds it is no JSON text, a SyntaxError.
JSONparse(text) ==
  IF \E d \in JsonDocs : JsonText[d] = text
  THEN Ok(CHOOSE d \in JsonDocs : JsonText[d] = text)
  ELSE Fail(ErrSyntax, JUndefined)

(***************************************************************************)
(* jwtVerify, verifySignature and decodeJWT                                *)
(***************************************************************************)

\* JWTVerifyOptions: has says whether the caller's options carry an
\* algorithms key, defined whether its value is an array (not undefined).
OptionsOf(list) == [has |-> TRUE, defined |-> TRUE, algorithms |-> list]
NoOptions == [has |-> FALSE, defined |-> FALSE, algorithms |-> << >>]
UndefinedAlgorithms == [has |-> TRUE, defined |-> FALSE, algorithms |-> << >>]

DefaultAlgorithms == << HS256, HS512 >>

\* { algorithms: ['HS256', 'HS512'], ...options }
MergeOptions(options) ==
  IF options.has THEN [defined |-> options.defined, algorithms |-> options.algorithms]
  ELSE [defined |-> TRUE, algorithms |-> DefaultAlgorithms]

\* A check that lets the token's own algorithm into the allow-list.
IncludesWidened(opts, alg) == alg.t = "string"

\* opts.algorithms?.includes(alg)
Includes(opts, alg) ==
  /\ opts.defined
  /\ alg.t = "string"
  /\ \E i \in 1..Len(opts.algorithms) : opts.algorithms[i] = alg.s

\* verifySignature: calls lists the crypto routines it ran, in order.
verifySignature(data, signatureB64, secret, algorithm, isNode) ==
  LET expectedSignature == hmacSign(algorithm, secret, data, isNode)
      signed == "hmacSign:" \o expectedSignature.hash
      actualSignature == base64UrlToBuffer(signatureB64, isNode)
  IN  IF ~expectedSignature.ok
      THEN [ok |-> FALSE, v |-> FALSE, err |-> expectedSignature.err,
            calls |-> << signed >>]
      ELSE IF ~actualSignature.ok
      THEN [ok |-> FALSE, v |-> FALSE, err |-> actualSignature.err,
            calls |-> << signed, "base64UrlToBuffer" >>]
      ELSE [ok |-> TRUE,
            v |-> timingSafeEqual(actualSignature.v, expectedSignature.v, isNode),
            err |-> NoError,
            calls |-> << signed, "base64UrlToBuffer", "timingSafeEqual" >>]

\* if (payload.exp && Date.now() >= payload.exp * 1000)
ExpiredAt(payload, now) ==
  LET exp == GetProp(payload, KeyExp)
  IN  Truthy(exp) /\ exp.t = "number" /\ now >= exp.n * MsPerSecond

\* An nbf check that is off by one millisecond.
NotYetValidAtInclusive(payload, now) ==
  LET nbf == GetProp(payload, KeyNbf)
  IN  Truthy(nbf) /\ nbf.t = "number" /\ now <= nbf.n * MsPerSecond

\* if (payload.nbf && Date.now() < payload.nbf * 1000)
NotYetValidAt(payload, now) ==
  LET nbf == GetProp(payload, KeyNbf)
  IN  Truthy(nbf) /\ nbf.t = "number" /\ now < nbf.n * MsPerSecond

\* The part of jwtVerify after the signature check: decode the payload and
\* check exp and nbf against Date.now().
VerifyClaims(payloadB64, now, isNode) ==
  LET text == base64UrlDecode(payloadB64, isNode)
      payload == JSONparse(text.v)
  IN  IF ~text.ok THEN [out |-> Fail(text.err, JUndefined), calls |-> << "base64UrlDecode" >>]
      ELSE IF ~payload.ok
      THEN [out |-> Fail(payload.err, JUndefined), calls |-> << "base64UrlDecode", "JSON.parse" >>]
      ELSE [out |-> IF payload.v.t = "null" THEN Fail(ErrTypeError, JUndefined)
                    ELSE IF ExpiredAt(payload.v, now) THEN Fail(ErrExpired, JUndefined)
                    ELSE IF NotYetValidAt(payload.v, now) THEN Fail(ErrNotYetValid, JUndefined)
                    ELSE Ok(payload.v),
            calls |-> << "base64UrlDecode", "JSON.parse" >>]

\* The part of jwtVerify from the allow-list check on.
VerifyHeader(header, parts, secret, opts, now, isNode) ==
  LET alg == GetProp(header, KeyAlg)
      data == parts[1] \o << "." >> \o parts[2]
      isValid == verifySignature(data, parts[3], secret, alg.s, isNode)
      claims == VerifyClaims(parts[2], now, isNode)
  IN  IF header.t = "null" THEN [out |-> Fail(ErrTypeError, JUndefined), calls |-> << >>]
      ELSE IF ~Includes(opts, alg)
      THEN [out |-> Fail(ErrAlgorithmNotSupported(alg), JUndefined), calls |-> << >>]
      ELSE IF ~isValid.ok THEN [out |-> Fail(isValid.err, JUndefined), calls |-> isValid.calls]
      ELSE IF ~isValid.v
      THEN [out |-> Fail(ErrInvalidSignature, JUndefined), calls |-> isValid.calls]
      ELSE [out |-> claims.out, calls |-> isValid.calls \o claims.calls]

\* jwtVerify(token, secret, options) run when Date.now() is now: out is the
\* payload it resolves to or the error it rejects with, calls the decoding
\* and crypto routines it ran, opts the options it checked the header with.
jwtVerify(token, secret, options, now, isNode) ==
  LET opts == MergeOptions(options)
      parts == split(token)
      headerText == base64UrlDecode(parts[1], isNode)
      header == JSONparse(headerText.v)
      rest == VerifyHeader(header.v, parts, secret, opts, now, isNode)
      Result(out, calls) == [out |-> out, calls |-> calls, opts |-> opts]
  IN  IF Len(parts) # 3 THEN Result(Fail(ErrInvalidTokenFormat, JUndefined), << >>)
      ELSE IF ~headerText.ok
      THEN Result(Fail(headerText.err, JUndefined), << "base64UrlDecode" >>)
      ELSE IF ~header.ok
      THEN Result(Fail(header.err, JUndefined), << "base64UrlDecode", "JSON.parse" >>)
      ELSE Result(rest.out, << "base64UrlDecode", "JSON.parse" >> \o rest.calls)

\* A decodeJWT that refuses a header whose alg is neither HS256 nor HS512.
decodeJWTCheckingAlg(token, isNode) ==
  LET parts == split(token)
      headerText == base64UrlDecode(parts[1], isNode)
      header == JSONparse(headerText.v)
      payloadText == base64UrlDecode(parts[2], isNode)
      payload == JSONparse(payloadText.v)
      Thrown(err, calls) ==
        [ok |-> FALSE, header |-> JUndefined, payload |-> JUndefined, err |-> err,
         calls |-> calls]
  IN  IF Len(parts) # 3 THEN Thrown(ErrInvalidTokenFormat, << >>)
      ELSE IF ~headerText.ok \/ ~header.ok \/ ~payloadText.ok \/ ~payload.ok
      THEN Thrown(ErrSyntax, << >>)
      ELSE IF GetProp(header.v, KeyAlg) \notin {JStr(HS256), JStr(HS512)}
      THEN Thrown(ErrAlgorithmNotSupported(GetProp(header.v, KeyAlg)), << >>)
      ELSE [ok |-> TRUE, header |-> header.v, payload |-> payload.v, err |-> NoError,
            calls |-> << "base64UrlDecode", "JSON.parse", "base64UrlDecode", "JSON.parse" >>]

\* decodeJWT(token): the header and the payload, or the error it throws.
decodeJWT(token, isNode) ==
  LET parts == split(token)
      headerText == base64UrlDecode(parts[1], isNode)
      header == JSONparse(headerText.v)
      payloadText == base64UrlDecode(parts[2], isNode)
      payload == JSONparse(payloadText.v)
      Thrown(err, calls) ==
        [ok |-> FALSE, header |-> JUndefined, payload |-> JUndefined, err |-> err,
         calls |-> calls]
  IN  IF Len(parts) # 3 THEN Thrown(ErrInvalidTokenFormat, << >>)
      ELSE IF ~headerText.ok THEN Thrown(headerText.err, << "base64UrlDecode" >>)
      ELSE IF ~header.ok THEN Thrown(header.err, << "base64UrlDecode", "JSON.parse" >>)
      ELSE IF ~payloadText.ok
      THEN Thrown(payloadText.err, << "base64UrlDecode", "JSON.parse", "base64UrlDecode" >>)
      ELSE IF ~payload.ok
      THEN Thrown(payload.err,
                  << "base64UrlDecode", "JSON.parse", "base64UrlDecode", "JSON.parse" >>)
      ELSE [ok |-> TRUE, header |-> header.v, payload |-> payload.v, err |-> NoError,
            calls |-> << "base64UrlDecode", "JSON.parse", "base64UrlDecode", "JSON.parse" >>]

(***************************************************************************)
(* Tokens: what the platform issues and what arrives instead               *)
(***************************************************************************)

\* The hash the JWT algorithm names: SHA-256 for HS256, SHA-512 for HS512.
HashOf(alg) == IF alg = HS256 THEN "sha256" ELSE "sha512"

\* Secrets: a key, the same key followed by U+0000, another key and the
\* empty key.
SecretK == << "k" >>
SecretKNul == << "k", NulChar >>
SecretW == << "w" >>
SecretEmpty == << >>
Secrets == {SecretK, SecretKNul, SecretW, SecretEmpty}

\* A text that is no JSON text, and a signature segment that is no HMAC.
NotJsonText == << "{", "\"", "a", "l", "g", "\"" >>
GarbageSignature == << "A", "A", "A", "A" >>

\* How a token is made: hdr and pl are the header and payload documents
\* (JUndefined stands for the text that is no JSON), sig the hash of the
\* HMAC that signs it under key ("garbage": no HMAC at all), shape what
\* became of its segments.
Shapes ==
  {"ok", "headerOnly", "noSignature", "extraSegment",
   "badHeaderChar", "badPayloadChar", "badSignatureChar"}

Recipe(hdr, pl, sig, key, shape) ==
  [hdr |-> hdr, pl |-> pl, sig |-> sig, key |-> key, shape |-> shape]

PlainPayload == PayloadOf(Absent, Absent)
SignedHeaders == {HeaderOf(HS256), HeaderOf(HS512)}
AlgHash(hdr) == HashOf(GetProp(hdr, KeyAlg).s)

Recipes ==
  \* correctly signed tokens with every combination of exp and nbf
  {Recipe(h, p, AlgHash(h), SecretK, "ok") : h \in SignedHeaders, p \in PayloadDocs}
  \* every header under every kind of signature
  \cup {Recipe(h, PlainPayload, g, SecretK, "ok") :
          h \in HeaderDocs \cup {JNull, JUndefined}, g \in {"sha256", "sha512", "garbage"}}
  \* tokens signed with the empty key
  \cup {Recipe(h, PlainPayload, AlgHash(h), SecretEmpty, "ok") : h \in SignedHeaders}
  \* every shape, over a payload that is claims, null or no JSON
  \cup {Recipe(HeaderOf(HS256), p, "sha256", SecretK, x) :
          p \in {PlainPayload, JNull, JUndefined}, x \in Shapes}

TextOfDoc(doc) == IF doc = JUndefined THEN NotJsonText ELSE JSONstringify(doc)

\* The token of a recipe.  An invalid character enters a segment before
\* the token is signed, so the signature covers the segments as they are.
BuildToken(r) ==
  LET bang(seg, x) == IF r.shape = x THEN seg \o << "!" >> ELSE seg
      h == bang(bufferToBase64Url(textToBuffer(TextOfDoc(r.hdr))), "badHeaderChar")
      p == bang(bufferToBase64Url(textToBuffer(TextOfDoc(r.pl))), "badPayloadChar")
      data == h \o << "." >> \o p
      s == bang(IF r.sig = "garbage" THEN GarbageSignature
                ELSE bufferToBase64Url(
                       HMAC(r.sig, textToBuffer(r.key), textToBuffer(data))),
                "badSignatureChar")
  IN  IF r.shape = "headerOnly" THEN h
      ELSE IF r.shape = "noSignature" THEN data
      ELSE IF r.shape = "extraSegment" THEN data \o << "." >> \o s \o << ".", "x" >>
      ELSE data \o << "." >> \o s

Tokens == [r \in Recipes |-> BuildToken(r)]

\* The number of "."-separated segments a shape gives a token.
SegmentCount(r) ==
  IF r.shape = "headerOnly" THEN 1
  ELSE IF r.shape = "noSignature" THEN 2
  ELSE IF r.shape = "extraSegment" THEN 4
  ELSE 3

OptionValues ==
  {NoOptions, UndefinedAlgorithms, OptionsOf(<< >>), OptionsOf(<< HS256 >>),
   OptionsOf(<< HS512 >>), OptionsOf(<< AlgNone >>), OptionsOf(<< HS256, AlgNone >>)}

\* The values Date.now() takes: the last millisecond of a second and the
\* first of the next.
ClockValues ==
  {(k * MsPerSecond) - 1 : k \in 1..MaxClock} \cup {k * MsPerSecond : k \in 1..MaxClock}

(***************************************************************************)
(* State                                                                   *)
(***************************************************************************)

(***************************************************************************)
(* The Inkress facade: values and pure helpers                             *)
(***************************************************************************)

\* NaN and Infinity: numbers that JSON.stringify writes as null.
JNaN == [t |-> "number", s |-> << "N", "a", "N" >>, n |-> 0, m |-> << >>]
JInfinity == [t |-> "number", s |-> << "I", "n", "f", "i", "n", "i", "t", "y" >>, n |-> 1, m |-> << >>]

\* An object that JSON.stringify cannot serialise (a circular reference).
JCircular == [t |-> "circular", s |-> << >>, n |-> 0, m |-> << >>]

\* A default that replaces whatever the caller gave.
DefaultAlways(val, dflt) == dflt

\* A destructuring default: it applies to undefined only.
DefaultTo(val, dflt) == IF val.t = "undefined" THEN dflt ELSE val

Digits == {Ascii[i] : i \in 17..26}

RECURSIVE DigitsValue(_)
DigitsValue(text) ==
  IF text = << >> THEN 0
  ELSE (10 * DigitsValue(SubSeq(text, 1, Len(text) - 1))) + (CodeTable[text[Len(text)]] - 48)

\* Number(value), for numbers, strings of digits and other strings, null,
\* undefined and objects.
ToNumber(val) ==
  IF val.t = "number" THEN val
  ELSE IF val.t = "null" THEN JNum(0)
  ELSE IF val.t = "string"
    THEN IF \A i \in 1..Len(val.s) : val.s[i] \in Digits THEN JNum(DigitsValue(val.s))
         ELSE JNaN
  ELSE JNaN

\* isNaN of a number.
IsNaN(num) == num = JNaN

\* String.prototype.substring(start, end) with 0 <= start <= end.
Substring(text, start, end) ==
  SubSeq(text, start + 1, IF end < Len(text) THEN end ELSE Len(text))

\* A replace that finds nothing to replace.
ReplaceNothing(text, pattern, replacement) == text

\* String.prototype.replace(pattern, replacement) with a string pattern:
\* the first occurrence only.
ReplaceFirst(text, pattern, replacement) ==
  LET hits == {i \in 1..(Len(text) - Len(pattern) + 1) :
                 SubSeq(text, i, i + Len(pattern) - 1) = pattern}
      at == CHOOSE i \in hits : \A j \in hits : i <= j
  IN  IF hits = {} THEN text
      ELSE SubSeq(text, 1, at - 1) \o replacement
           \o SubSeq(text, at + Len(pattern), Len(text))

\* The concatenation of a sequence of texts.
RECURSIVE Flatten(_)
Flatten(pieces) ==
  IF pieces = << >> THEN << >>
  ELSE IF Len(pieces) = 1 THEN pieces[1]
  ELSE Flatten(SubSeq(pieces, 1, Len(pieces) \div 2))
       \o Flatten(SubSeq(pieces, (Len(pieces) \div 2) + 1, Len(pieces)))

HexDigits == << "0", "1", "2", "3", "4", "5", "6", "7", "8", "9", "A", "B", "C", "D", "E", "F" >>

PercentByte(b) == << "%", HexDigits[(b \div 16) + 1], HexDigits[(b % 16) + 1] >>

\* The characters encodeURIComponent leaves alone.
UriUnreserved ==
  {Ascii[i] : i \in (17..26) \cup (34..59) \cup (66..91)}
  \cup {"-", "_", ".", "!", "~", "*", "'", "(", ")"}

\* encodeURIComponent: every other character becomes the %XX of its UTF-8
\* bytes.
encodeURIComponent(text) ==
  Flatten([i \in 1..Len(text) |->
             IF text[i] \in UriUnreserved THEN << text[i] >>
             ELSE PercentByte(CodeTable[text[i]])])

HexValue(c) == (CHOOSE i \in 1..16 : HexDigits[i] = c) - 1

IsHex(c) == \E i \in 1..16 : HexDigits[i] = c

\* unescape: %XX becomes the character of code XX; the result is given as
\* the character codes (a binary string).  The two digits of an escape are
\* no "%", so escapes do not overlap.
unescape(text) ==
  LET escapeAt(i) ==
        /\ i >= 1 /\ i + 2 <= Len(text)
        /\ text[i] = "%" /\ IsHex(text[i + 1]) /\ IsHex(text[i + 2])
      kept == SelectSeq([i \in 1..Len(text) |-> i],
                        LAMBDA i : ~escapeAt(i - 1) /\ ~escapeAt(i - 2))
  IN  [k \in 1..Len(kept) |->
         IF escapeAt(kept[k])
         THEN (16 * HexValue(text[kept[k] + 1])) + HexValue(text[kept[k] + 2])
         ELSE CodeTable[text[kept[k]]]]

\* btoa of a binary string given as its character codes.
btoa(codes) == Base64Encode(codes)

\* Object.assign(target, source) for objects; a source of null or undefined
\* is skipped.
RECURSIVE AssignMembers(_, _)
AssignMembers(target, members) ==
  IF members = << >> THEN target
  ELSE LET mem == Head(members)
           set == IF \E i \in 1..Len(target) : target[i].k = mem.k
                  THEN [i \in 1..Len(target) |->
                          IF target[i].k = mem.k THEN mem ELSE target[i]]
                  ELSE Append(target, mem)
       IN  AssignMembers(set, Tail(members))

ObjectAssign(target, source) ==
  IF source.t = "object" THEN JObj(AssignMembers(target.m, source.m)) ELSE target

(***************************************************************************)
(* The Inkress facade: constructor, createOrder, verifyJWT                 *)
(***************************************************************************)

LiveBaseUrl == << "h", "t", "t", "p", "s", ":", "/", "/", "i", "n", "k", "r", "e", "s", "s", ".", "c", "o", "m", "/", "a", "p", "i", "/", "v", "1" >>
TestBaseUrl == << "h", "t", "t", "p", "s", ":", "/", "/", "d", "e", "v", ".", "i", "n", "k", "r", "e", "s", "s", ".", "c", "o", "m", "/", "a", "p", "i", "/", "v", "1" >>
ApiPath == << "/", "a", "p", "i", "/", "v", "1" >>
ModeLive == << "l", "i", "v", "e" >>
ModeTest == << "t", "e", "s", "t" >>
ModeStaging == << "s", "t", "a", "g", "i", "n", "g" >>

\* A constructor that does not look at the mode.
InkressAlwaysLive(config) ==
  [baseUrl |-> LiveBaseUrl,
   token |-> DefaultTo(config.token, JStr(<< >>)).s,
   clientKey |-> DefaultTo(config.clientKey, JStr(<< >>)).s]

\* constructor({ token = '', clientKey = '', mode = 'live' } = {})
Inkress(config) ==
  [baseUrl |-> IF DefaultTo(config.mode, JStr(ModeLive)) = JStr(ModeLive)
               THEN LiveBaseUrl ELSE TestBaseUrl,
   token |-> DefaultTo(config.token, JStr(<< >>)).s,
   clientKey |-> DefaultTo(config.clientKey, JStr(<< >>)).s]

\* A settled promise.
Fulfilled(val) == [state |-> "fulfilled", v |-> val, err |-> NoError]
Rejected(err) == [state |-> "rejected", v |-> JUndefined, err |-> err]
Unsettled == [state |-> "pending", v |-> JUndefined, err |-> NoError]

\* An async function that lets a failure out: its promise rejects.
verifyJWTUncaught(completion) ==
  IF completion.ok THEN Fulfilled(completion.v) ELSE Rejected(completion.err)

\* verifyJWT: try { return await jwtVerify(...) } catch { return null }
verifyJWT(completion) ==
  IF completion.ok THEN Fulfilled(completion.v) ELSE Fulfilled(JNull)

\* What fetch settles with: a rejection (no connection), or a Response of
\* some status and body text; Response.ok is a status of 200 to 299.
StatusCodes == {200, 404}
ResponseOk(status) == status >= 200 /\ status <= 299
ErrFetchFailed == Err("TypeError", "fetch failed", << >>)
ErrCircular == Err("TypeError", "circular structure", << >>)
ErrApi(status) == Err("Error", "API error: ", NatToText(status))
ErrBodyStream == Err("TypeError", "body stream", << >>)

\* The request createOrder hands to fetch, or the TypeError JSON.stringify
\* throws on the way.
NoRequest ==
  [url |-> << >>, method |-> "", contentType |-> << >>, clientKey |-> << >>,
   authorization |-> << >>, body |-> << >>]

\* A request that carries no credentials.
createOrderRequestNoCredentials(self, order) ==
  IF order.t = "circular" THEN Fail(ErrCircular, NoRequest)
  ELSE Ok([url |-> self.baseUrl \o ApiPath,
           method |-> "POST",
           contentType |-> << "a", "p", "p", "l", "i", "c", "a", "t", "i", "o", "n", "/", "j", "s", "o", "n" >>,
           clientKey |-> << >>,
           authorization |-> << "B", "e", "a", "r", "e", "r", " " >>,
           body |-> JSONstringify(order)])

createOrderRequest(self, order) ==
  IF order.t = "circular" THEN Fail(ErrCircular, NoRequest)
  ELSE Ok([url |-> self.baseUrl \o ApiPath,
           method |-> "POST",
           contentType |-> << "a", "p", "p", "l", "i", "c", "a", "t", "i", "o", "n", "/", "j", "s", "o", "n" >>,
           clientKey |-> self.clientKey,
           authorization |-> << "B", "e", "a", "r", "e", "r", " " >> \o self.token,
           body |-> JSONstringify(order)])

\* A createOrder without the response.ok check.
createOrderResponseUnchecked(settled) ==
  IF ~settled.ok THEN Fail(settled.err, JUndefined) ELSE Ok(settled.v)

\* if (!response.ok) throw new Error(`API error: ...`), once fetch settles:
\* the response to read, or what is thrown.
createOrderResponse(settled) ==
  IF ~settled.ok THEN Fail(settled.err, JUndefined)
  ELSE IF ~ResponseOk(settled.v.status) THEN Fail(ErrApi(settled.v.status), JUndefined)
  ELSE Ok(settled.v)

\* response.json(): the body is read (which may fail) and parsed.
ResponseJson(response, streamOk) ==
  IF ~streamOk THEN Fail(ErrBodyStream, JUndefined) ELSE JSONparse(response.body)

\* A catch block that throws the error on to the caller.
createOrderRethrow(completion) ==
  IF completion.ok THEN Fulfilled(completion.v) ELSE Rejected(completion.err)

\* A createOrder whose promise is never settled.
createOrderNeverSettles(completion) == Unsettled

\* catch (error) { console.error(...); return null }
createOrder(completion) ==
  IF completion.ok THEN Fulfilled(completion.v) ELSE Fulfilled(JNull)

(***************************************************************************)
(* The Inkress facade: createPaymentUrl                                    *)
(***************************************************************************)

KeyUsername == << "u", "s", "e", "r", "n", "a", "m", "e" >>
KeyTotal == << "t", "o", "t", "a", "l" >>
KeyCurrencyCode == << "c", "u", "r", "r", "e", "n", "c", "y", "_", "c", "o", "d", "e" >>
KeyTitle == << "t", "i", "t", "l", "e" >>
KeyReferenceId == << "r", "e", "f", "e", "r", "e", "n", "c", "e", "_", "i", "d" >>
KeyCustomer == << "c", "u", "s", "t", "o", "m", "e", "r" >>
KeyPaymentLinkId == << "p", "a", "y", "m", "e", "n", "t", "_", "l", "i", "n", "k", "_", "i", "d" >>
KeyFirstName == << "f", "i", "r", "s", "t", "_", "n", "a", "m", "e" >>
KeyLastName == << "l", "a", "s", "t", "_", "n", "a", "m", "e" >>
KeyEmail == << "e", "m", "a", "i", "l" >>
KeyPhone == << "p", "h", "o", "n", "e" >>

ErrUsernameRequired == Err("Error", "Merchant username is required", << >>)
ErrTotalRequired == Err("Error", "Valid total amount is required", << >>)
ErrEncodeFailed == Err("Error", "Failed to encode payment data", << >>)

\* A validation that asks only for the username key to be there.
validatePaymentOptionsKeyOnly(options) ==
  IF GetProp(options, KeyUsername).t = "undefined"
  THEN Fail(ErrUsernameRequired, JUndefined)
  ELSE Ok(JUndefined)

\* validatePaymentOptions: returns, or throws what is wrong.
validatePaymentOptions(options) ==
  LET username == GetProp(options, KeyUsername)
      total == GetProp(options, KeyTotal)
  IN  IF ~Truthy(username) THEN Fail(ErrUsernameRequired, JUndefined)
      ELSE IF total.t = "undefined" \/ total.t = "null" \/ IsNaN(ToNumber(total))
      THEN Fail(ErrTotalRequired, JUndefined)
      ELSE Ok(JUndefined)

\* Math.random().toString(36) and generateRandomId over two such texts.
generateRandomId(draw1, draw2) == Substring(draw1, 2, 15) \o Substring(draw2, 2, 15)

\* JSON.parse of a text made of objects, strings without escapes, whole
\* numbers and null, without white space (what JSON.stringify writes for
\* the values above); anything else is a SyntaxError.  A parse gives the
\* value read and the position after it.
RECURSIVE ParseValue(_, _)
RECURSIVE ParseMembers(_, _, _)
ParseFail == [ok |-> FALSE, v |-> JUndefined, next |-> 0]
ParseString(text, i) ==
  LET quotes == {j \in (i + 1)..Len(text) : text[j] = "\""}
      close == CHOOSE j \in quotes : \A k \in quotes : j <= k
  IN  IF i > Len(text) \/ text[i] # "\"" \/ quotes = {} THEN ParseFail
      ELSE IF \E j \in (i + 1)..(close - 1) :
                text[j] \in {"<backslash>", NulChar}
      THEN ParseFail
      ELSE [ok |-> TRUE, v |-> JStr(SubSeq(text, i + 1, close - 1)), next |-> close + 1]
ParseNumber(text, i) ==
  LET others == {j \in i..Len(text) : text[j] \notin Digits}
      stop == IF others = {} THEN Len(text) + 1
              ELSE CHOOSE j \in others : \A k \in others : j <= k
  IN  IF stop = i \/ (text[i] = "0" /\ stop > i + 1) THEN ParseFail
      ELSE [ok |-> TRUE, v |-> JNum(DigitsValue(SubSeq(text, i, stop - 1))), next |-> stop]
ParseMembers(text, i, members) ==
  LET key == ParseString(text, i)
      val == ParseValue(text, key.next + 1)
      all == AssignMembers(members, << Member(key.v.s, val.v) >>)
  IN  IF ~key.ok \/ key.next > Len(text) \/ text[key.next] # ":" THEN ParseFail
      ELSE IF ~val.ok \/ val.next > Len(text) THEN ParseFail
      ELSE IF text[val.next] = "}"
      THEN [ok |-> TRUE, v |-> JObj(all), next |-> val.next + 1]
      ELSE IF text[val.next] = "," THEN ParseMembers(text, val.next + 1, all)
      ELSE ParseFail
ParseValue(text, i) ==
  IF i > Len(text) THEN ParseFail
  ELSE IF text[i] = "{"
    THEN IF i < Len(text) /\ text[i + 1] = "}"
         THEN [ok |-> TRUE, v |-> JObj(<< >>), next |-> i + 2]
         ELSE ParseMembers(text, i + 1, << >>)
  ELSE IF text[i] = "\"" THEN ParseString(text, i)
  ELSE IF text[i] \in Digits THEN ParseNumber(text, i)
  ELSE IF SubSeq(text, i, i + 3) = << "n", "u", "l", "l" >>
    THEN [ok |-> TRUE, v |-> JNull, next |-> i + 4]
  ELSE ParseFail
JSONparseText(text) ==
  LET parsed == ParseValue(text, 1)
  IN  IF parsed.ok /\ parsed.next = Len(text) + 1 THEN Ok(parsed.v)
      ELSE Fail(ErrSyntax, JUndefined)

\* The characters escape leaves alone.
EscapeUnreserved ==
  {Ascii[i] : i \in (17..26) \cup (34..59) \cup (66..91)}
  \cup {"@", "*", "_", "+", "-", ".", "/"}

\* escape of a binary string given as its character codes: every other
\* character becomes the %XX of its code.
escape(codes) ==
  Flatten([i \in 1..Len(codes) |->
             IF CharOfByte(codes[i]) \in EscapeUnreserved
             THEN << CharOfByte(codes[i]) >>
             ELSE PercentByte(codes[i])])

ErrURIError == Err("URIError", "URI malformed", << >>)

\* How many continuation bytes a UTF-8 byte asks for: none for ASCII, -1
\* for a continuation byte itself and -2 for a byte UTF-8 never uses.
Utf8Need(b) ==
  IF b < 128 THEN 0
  ELSE IF b < 192 THEN 0 - 1
  ELSE IF b < 194 \/ b > 244 THEN 0 - 2
  ELSE IF b < 224 THEN 1
  ELSE IF b < 240 THEN 2
  ELSE 3

\* decodeURIComponent: each %XX is a byte, the bytes of consecutive escapes
\* are read as UTF-8, and a "%" without two hex digits or bytes that are
\* no UTF-8 throw URIError.  (Overlong forms and surrogates are not told
\* apart from other sequences of the right shape.)
decodeURIComponent(text) ==
  LET escapeAt(i) == i >= 1 /\ i <= Len(text) /\ text[i] = "%"
      wellFormed(i) == i + 2 <= Len(text) /\ IsHex(text[i + 1]) /\ IsHex(text[i + 2])
      kept == SelectSeq([i \in 1..Len(text) |-> i],
                        LAMBDA i : ~escapeAt(i - 1) /\ ~escapeAt(i - 2))
      n == Len(kept)
      byte(k) == (16 * HexValue(text[kept[k] + 1])) + HexValue(text[kept[k] + 2])
      need(k) == IF k >= 1 /\ k <= n /\ escapeAt(kept[k]) THEN Utf8Need(byte(k)) ELSE 0
      cont(k) == k >= 1 /\ k <= n /\ escapeAt(kept[k]) /\ need(k) = 0 - 1
      utf8(k) ==
        IF need(k) > 0 THEN \A j \in 1..need(k) : cont(k + j)
        ELSE IF need(k) = 0 - 1
          THEN \E j \in 1..3 : need(k - j) >= j /\ \A l \in 1..(j - 1) : cont(k - l)
        ELSE need(k) = 0
      starts == SelectSeq([k \in 1..n |-> k], LAMBDA k : ~cont(k))
  IN  IF \E i \in 1..Len(text) : escapeAt(i) /\ ~wellFormed(i)
      THEN Fail(ErrURIError, << >>)
      ELSE IF \E k \in 1..n : ~utf8(k) THEN Fail(ErrURIError, << >>)
      ELSE Ok([k \in 1..Len(starts) |->
                 IF ~escapeAt(kept[starts[k]]) THEN text[kept[starts[k]]]
                 ELSE IF need(starts[k]) > 0 THEN NonAscii
                 ELSE CharOfByte(byte(starts[k]))])

\* decodeB64JSON: Buffer.from(encoded, 'base64').toString('utf-8') on Node,
\* decodeURIComponent(escape(atob(encoded))) in the browser, then
\* JSON.parse; whatever is thrown is caught and undefined returned.
decodeB64JSON(encoded, isNode) ==
  LET binary == atob(encoded)
      decoded == IF binary.ok THEN decodeURIComponent(escape(binary.bytes))
                 ELSE Fail(ErrInvalidCharacter, << >>)
      jsonStr == IF isNode THEN Ok(bufferToText(BufferFromBase64(encoded))) ELSE decoded
      parsed == JSONparseText(jsonStr.v)
  IN  IF jsonStr.ok /\ parsed.ok THEN parsed.v ELSE JUndefined

\* encodeJSONToB64: Buffer.from(jsonStr).toString('base64') on Node,
\* btoa(unescape(encodeURIComponent(jsonStr))) in the browser.
encodeJSONToB64(data, isNode) ==
  LET jsonStr == JSONstringify(data)
  IN  IF data.t = "circular" THEN Fail(ErrEncodeFailed, << >>)
      ELSE IF isNode THEN Ok(Base64Encode(textToBuffer(jsonStr)))
      ELSE Ok(btoa(unescape(encodeURIComponent(jsonStr))))

defaultCustomer ==
  JObj(<< Member(KeyFirstName, JStr(<< >>)), Member(KeyLastName, JStr(<< >>)),
          Member(KeyEmail, JStr(<< >>)), Member(KeyPhone, JStr(<< >>)) >>)

\* An order whose reference is always drawn, whatever the caller gave.
orderDataFreshReference(options, draws) ==
  LET username == GetProp(options, KeyUsername)
      customer == DefaultTo(GetProp(options, KeyCustomer), JObj(<< >>))
  IN  JObj(<< Member(KeyTotal, ToNumber(GetProp(options, KeyTotal))),
              Member(KeyCurrencyCode,
                     DefaultTo(GetProp(options, KeyCurrencyCode), JStr(<< "J", "M", "D" >>))),
              Member(KeyTitle,
                     DefaultTo(GetProp(options, KeyTitle),
                               JStr(<< "P", "a", "y", "m", "e", "n", "t", " ", "t", "o", " " >> \o ToText(username)))),
              Member(KeyReferenceId, JStr(generateRandomId(draws[1], draws[2]))),
              Member(KeyCustomer,
                     ObjectAssign(ObjectAssign(JObj(<< >>), defaultCustomer), customer)) >>)

\* The orderData createPaymentUrl encodes, for options that passed the
\* validation; draws are the Math.random() texts generateRandomId uses
\* when reference_id has to be defaulted.
orderData(options, draws) ==
  LET username == GetProp(options, KeyUsername)
      customer == DefaultTo(GetProp(options, KeyCustomer), JObj(<< >>))
  IN  JObj(<< Member(KeyTotal, ToNumber(GetProp(options, KeyTotal))),
              Member(KeyCurrencyCode,
                     DefaultTo(GetProp(options, KeyCurrencyCode), JStr(<< "J", "M", "D" >>))),
              Member(KeyTitle,
                     DefaultTo(GetProp(options, KeyTitle),
                               JStr(<< "P", "a", "y", "m", "e", "n", "t", " ", "t", "o", " " >> \o ToText(username)))),
              Member(KeyReferenceId,
                     DefaultTo(GetProp(options, KeyReferenceId),
                               JStr(generateRandomId(draws[1], draws[2])))),
              Member(KeyCustomer,
                     ObjectAssign(ObjectAssign(JObj(<< >>), defaultCustomer), customer)) >>)

\* createPaymentUrl(options) on a facade whose base URL is baseUrl: the
\* URL it returns or the error it throws, and the orderData it encoded.
createPaymentUrl(baseUrl, options, draws, isNode) ==
  LET valid == validatePaymentOptions(options)
      data == orderData(options, draws)
      orderToken == encodeJSONToB64(data, isNode)
      link == GetProp(options, KeyPaymentLinkId)
      baseUrlWithoutApi == ReplaceFirst(baseUrl, ApiPath, << >>)
  IN  IF ~valid.ok THEN [ok |-> FALSE, v |-> << >>, err |-> valid.err, data |-> JUndefined]
      ELSE IF ~orderToken.ok
      THEN [ok |-> FALSE, v |-> << >>, err |-> orderToken.err, data |-> data]
      ELSE [ok |-> TRUE,
            v |-> baseUrlWithoutApi \o << "/", "m", "e", "r", "c", "h", "a", "n", "t", "s", "/" >>
                  \o encodeURIComponent(ToText(GetProp(options, KeyUsername)))
                  \o << "/", "o", "r", "d", "e", "r", "?", "l", "i", "n", "k", "_", "t", "o", "k", "e", "n", "=" >>
                  \o (IF Truthy(link) THEN ToText(link) ELSE << >>)
                  \o << "&", "o", "r", "d", "e", "r", "_", "t", "o", "k", "e", "n", "=" >> \o orderToken.v,
            err |-> NoError, data |-> data]

(***************************************************************************)
(* Inputs of the facade                                                    *)
(***************************************************************************)

TokenOne == << "t", "1" >>
TokenTwo == << "t", "2" >>
ClientOne == << "c", "1" >>
ClientTwo == << "c", "2" >>

\* The argument of the constructor: each key absent or given.
Configs ==
  [token : {JUndefined, JStr(TokenOne)},
   clientKey : {JUndefined, JStr(ClientOne)},
   mode : {JUndefined, JStr(ModeLive), JStr(ModeTest), JStr(ModeStaging)}]

DefaultConfig == [token |-> JUndefined, clientKey |-> JUndefined, mode |-> JUndefined]

TokenValues == {TokenOne, TokenTwo}
ClientKeyValues == {ClientTwo}

OrderDoc == JObj(<< Member(KeyTotal, JNum(5)), Member(KeyReferenceId, JStr(<< "r", "1" >>)) >>)
Orders == {OrderDoc, JCircular}

NoResponse == [status |-> 0, body |-> << >>]
ResponseBodies == {JSONstringify(d) : d \in ResponseDocs} \cup {NotJsonText, << >>}
FetchOutcomes ==
  {Fail(ErrFetchFailed, NoResponse)}
  \cup {Ok([status |-> s, body |-> b]) : s \in StatusCodes, b \in ResponseBodies}

\* Tokens for verifyJWT: one of each way jwtVerify ends.
FacadeRecipes ==
  {Recipe(HeaderOf(HS256), PlainPayload, "sha256", SecretK, "ok"),
   Recipe(HeaderOf(HS512), PayloadOf(1, Absent), "sha512", SecretK, "ok"),
   Recipe(HeaderOf(HS512), PayloadOf(Absent, 2), "sha512", SecretK, "ok"),
   Recipe(HeaderOf(HS256), PayloadOf(2, 1), "sha256", SecretK, "ok"),
   Recipe(HeaderOf(AlgNone), PlainPayload, "sha512", SecretK, "ok"),
   Recipe(HeaderOf(HS256), PlainPayload, "garbage", SecretK, "ok"),
   Recipe(JNull, PlainPayload, "sha256", SecretK, "ok"),
   Recipe(JUndefined, PlainPayload, "sha256", SecretK, "ok"),
   Recipe(HeaderOf(HS256), JUndefined, "sha256", SecretK, "ok"),
   Recipe(HeaderOf(HS256), PlainPayload, "sha256", SecretK, "noSignature"),
   Recipe(HeaderOf(HS256), PlainPayload, "sha256", SecretK, "extraSegment"),
   Recipe(HeaderOf(HS256), PlainPayload, "sha256", SecretK, "badHeaderChar"),
   Recipe(HeaderOf(HS256), PlainPayload, "sha256", SecretEmpty, "ok")}

\* The calls of verifyJWT: every token under its signing secret, without
\* options and with HS512 alone allowed, and one token under a wrong secret.
VerifyInputs ==
  {[recipe |-> r, secret |-> r.key, options |-> o] :
     r \in FacadeRecipes, o \in {NoOptions, OptionsOf(<< HS512 >>)}}
  \cup {[recipe |-> Recipe(HeaderOf(HS256), PlainPayload, "sha256", SecretK, "ok"),
          secret |-> SecretW, options |-> NoOptions]}

\* Math.random().toString(36): "0" for 0, and fractions of 1, 11 and 17
\* digits.
RandomDraws ==
  {<< "0" >>, << "0", ".", "i" >>, << "0", ".", "4", "f", "z", "y", "o", "8", "2", "m", "v", "y", "r" >>, << "0", ".", "0", "0", "0", "0", "0", "1", "b", "3", "k", "9", "x", "7", "q", "2", "m", "5", "c" >>}
FixedDraws == << << "0", ".", "4", "f", "z", "y", "o", "8", "2", "m", "v", "y", "r" >>, << "0", ".", "9", "z", "8", "y", "7", "x", "6", "w", "5", "v", "4" >> >>

\* An options object: the keys whose value is not undefined.
Options(members) == JObj(SelectSeq(members, LAMBDA mem : mem.v.t # "undefined"))

PaymentOptions(username, total, currency, title, reference, customer, link) ==
  Options(<< Member(KeyUsername, username), Member(KeyTotal, total),
             Member(KeyCurrencyCode, currency), Member(KeyTitle, title),
             Member(KeyReferenceId, reference), Member(KeyCustomer, customer),
             Member(KeyPaymentLinkId, link) >>)

Usernames == {JUndefined, JNull, JStr(<< >>), JStr(<< "s", "h", "o", "p" >>), JStr(<< "a", " ", "b" >>)}
Totals ==
  {JUndefined, JNull, JNum(0), JNum(5), JNaN, JInfinity,
   JStr(<< "1", "2" >>), JStr(<< "a", "b", "c" >>), JStr(<< >>)}
Customers ==
  {JUndefined, JNull, JObj(<< >>),
   JObj(<< Member(KeyEmail, JStr(<< "e", "@", "x" >>)) >>),
   JObj(<< Member(KeyEmail, JUndefined), Member(KeyPhone, JStr(<< "1" >>)) >>),
   JObj(<< Member(KeyFirstName, JStr(<< "A" >>)), Member(<< "i", "d" >>, JNum(7)) >>)}

PaymentInputs ==
  \* every username with every total
  {[options |-> PaymentOptions(u, t, JUndefined, JUndefined, JUndefined, JUndefined,
                               JUndefined),
    draws |-> FixedDraws] : u \in Usernames, t \in Totals}
  \* every optional text field absent or given
  \cup {[options |-> PaymentOptions(JStr(<< "s", "h", "o", "p" >>), JNum(5), c, t, r, JUndefined, l),
         draws |-> FixedDraws] :
          c \in {JUndefined, JStr(<< "U", "S", "D" >>)}, t \in {JUndefined, JStr(<< "T" >>)},
          r \in {JUndefined, JStr(<< "r", "1" >>)},
          l \in {JUndefined, JStr(<< >>), JStr(<< "L" >>)}}
  \* every customer
  \cup {[options |-> PaymentOptions(JStr(<< "s", "h", "o", "p" >>), JNum(5), JUndefined, JUndefined, r,
                                    cu, JUndefined),
         draws |-> FixedDraws] : r \in {JUndefined, JStr(<< "r", "1" >>)}, cu \in Customers}
  \* every pair of Math.random() results
  \cup {[options |-> PaymentOptions(JStr(<< "s", "h", "o", "p" >>), JNum(5), JUndefined, JUndefined,
                                    JUndefined, JUndefined, JUndefined),
         draws |-> << d1, d2 >>] : d1 \in RandomDraws, d2 \in RandomDraws}

\* What callers hand to decodeB64JSON: the base64 text of JSON documents,
\* padded as Buffer.toString('base64') and btoa write it, without the
\* padding, and followed by a character base64 does not use; the base64 of
\* a text that is no JSON and of bytes that are no UTF-8; texts that are no
\* base64 at all.
JsonSamples ==
  {JObj(<< >>), JNull, JNum(7), JStr(<< "a" >>), JObj(<< Member(<< "i", "d" >>, JNum(7)) >>)}
EncodedSamples == {Base64Encode(textToBuffer(JSONstringify(d))) : d \in JsonSamples}
EncodedInputs ==
  EncodedSamples
  \cup {RemoveAll(e, "=") : e \in EncodedSamples}
  \cup {e \o << "!" >> : e \in EncodedSamples}
  \cup {Base64Encode(textToBuffer(<< "{" >>)), Base64Encode(<< 34, 255, 34 >>),
        << >>, << "!" >>, << "e" >>}

BaseUrls == {LiveBaseUrl, TestBaseUrl}

PaymentResults ==
  [in \in PaymentInputs, b \in BaseUrls, node \in BOOLEAN |->
     createPaymentUrl(b, in.options, in.draws, node)]

(***************************************************************************)
(* The state machine                                                       *)
(***************************************************************************)

VARIABLES
  isNode,      \* the backend the module selected when it was loaded
  now,         \* Date.now(), in milliseconds
  verifyCall,  \* the jwtVerify call under observation and its result
  decodeCall,  \* the decodeJWT call under observation and its result
  mode,        \* the mode the facade was constructed with
  baseUrl,     \* this.baseUrl
  token,       \* this.token
  clientKey,   \* this.clientKey
  orderCall,   \* the createOrder call under observation
  jwtCall,     \* the verifyJWT call under observation
  paymentCall, \* the createPaymentUrl call under observation and its result
  issued,      \* history: how many repeated createPaymentUrl calls were made
               \* and the URL the first of them returned
  helperCall   \* the decodeB64JSON or generateRandomId call under observation

vars ==
  << isNode, now, verifyCall, decodeCall, mode, baseUrl, token, clientKey,
     orderCall, jwtCall, paymentCall, issued, helperCall >>

verifierVars == << verifyCall, decodeCall >>
fieldVars == << mode, baseUrl, token, clientKey >>
facadeCallVars == << orderCall, jwtCall, paymentCall >>

NoVerifyResult ==
  [out |-> Fail(NoError, JUndefined), calls |-> << >>, opts |-> MergeOptions(NoOptions)]

IdleVerify ==
  [active |-> FALSE, recipe |-> Recipe(HeaderOf(HS256), PlainPayload, "sha256", SecretK, "ok"),
   secret |-> SecretK, options |-> NoOptions, res |-> NoVerifyResult]

IdleDecode ==
  [active |-> FALSE, recipe |-> Recipe(HeaderOf(HS256), PlainPayload, "sha256", SecretK, "ok"),
   res |-> [ok |-> FALSE, header |-> JUndefined, payload |-> JUndefined, err |-> NoError,
            calls |-> << >>]]

\* A createOrder call: fetches counts the calls of fetch it has made.
IdleOrder ==
  [stage |-> "idle", order |-> OrderDoc, request |-> NoRequest, fetches |-> 0,
   fetched |-> Fail(NoError, NoResponse), streamOk |-> TRUE, result |-> Unsettled]

IdleJwt ==
  [stage |-> "idle", recipe |-> Recipe(HeaderOf(HS256), PlainPayload, "sha256", SecretK, "ok"),
   secret |-> SecretK, options |-> NoOptions, inner |-> Fail(NoError, JUndefined),
   result |-> Unsettled]

IdlePayment ==
  [active |-> FALSE, input |-> [options |-> JObj(<< >>), draws |-> FixedDraws],
   res |-> [ok |-> FALSE, v |-> << >>, err |-> NoError, data |-> JUndefined]]

Idle == ~verifyCall.active /\ ~decodeCall.active

\* No decodeB64JSON or generateRandomId call is under observation.
IdleHelper ==
  [op |-> "none", encoded |-> << >>, decoded |-> JUndefined,
   draws |-> << << "0" >>, << "0" >> >>, id |-> << >>]

NotIssued == [calls |-> 0, url |-> << >>]

\* No facade call is under observation.
Quiet ==
  /\ orderCall.stage = "idle"
  /\ jwtCall.stage = "idle"
  /\ ~paymentCall.active
  /\ helperCall.op = "none"

\* new Inkress(c)
Constructed(c) ==
  /\ mode = c.mode
  /\ baseUrl = Inkress(c).baseUrl
  /\ token = Inkress(c).token
  /\ clientKey = Inkress(c).clientKey
  /\ orderCall = IdleOrder
  /\ jwtCall = IdleJwt
  /\ paymentCall = IdlePayment

InitJwt ==
  /\ isNode \in BOOLEAN
  /\ now = MsPerSecond - 1
  /\ verifyCall = IdleVerify
  /\ decodeCall = IdleDecode
  /\ issued = NotIssued
  /\ helperCall = IdleHelper
  /\ Constructed(DefaultConfig)

Init ==
  /\ isNode \in BOOLEAN
  /\ now = MsPerSecond - 1
  /\ verifyCall = IdleVerify
  /\ decodeCall = IdleDecode
  /\ issued = NotIssued
  /\ helperCall = IdleHelper
  /\ \E c \in Configs : Constructed(c)

\* Time passes.
Tick ==
  /\ Idle
  /\ ~paymentCall.active
  /\ \E t \in ClockValues : t > now /\ now' = t
  /\ UNCHANGED << isNode, issued, helperCall, verifierVars, fieldVars, facadeCallVars >>

\* A caller runs jwtVerify(token, secret, options) to completion.
JwtVerify ==
  /\ Idle
  /\ \E r \in Recipes, secret \in Secrets, options \in OptionValues :
       verifyCall' = [active |-> TRUE, recipe |-> r, secret |-> secret,
                      options |-> options,
                      res |-> jwtVerify(Tokens[r], secret, options, now, isNode)]
  /\ UNCHANGED << isNode, issued, helperCall, now, decodeCall, fieldVars, facadeCallVars >>

\* A caller runs decodeJWT(token).
DecodeJWT ==
  /\ Idle
  /\ \E r \in Recipes :
       decodeCall' = [active |-> TRUE, recipe |-> r, res |-> decodeJWT(Tokens[r], isNode)]
  /\ UNCHANGED << isNode, issued, helperCall, now, verifyCall, fieldVars, facadeCallVars >>

\* The caller has looked at the result.
Return ==
  /\ ~Idle
  /\ verifyCall' = IdleVerify
  /\ decodeCall' = IdleDecode
  /\ UNCHANGED << isNode, issued, helperCall, now, fieldVars, facadeCallVars >>

NextJwt == Tick \/ JwtVerify \/ DecodeJWT \/ Return

SpecJwt == InitJwt /\ [][NextJwt]_vars

\* A setToken that also puts the facade back on the live host.
SetTokenResettingBaseUrl ==
  /\ ~paymentCall.active
  /\ \E t \in TokenValues : token' = t
  /\ baseUrl' = LiveBaseUrl
  /\ UNCHANGED << isNode, issued, helperCall, now, verifierVars, mode, clientKey, facadeCallVars >>

\* setToken(token)
SetToken ==
  /\ ~paymentCall.active
  /\ \E t \in TokenValues : token' = t
  /\ UNCHANGED << isNode, issued, helperCall, now, verifierVars, mode, baseUrl, clientKey, facadeCallVars >>

\* setClient(clientKey)
SetClient ==
  /\ ~paymentCall.active
  /\ \E k \in ClientKeyValues : clientKey' = k
  /\ UNCHANGED << isNode, issued, helperCall, now, verifierVars, mode, baseUrl, token, facadeCallVars >>

\* createOrder(order) up to its first await: fetch has the request, or
\* JSON.stringify threw and the catch block has returned null.
CreateOrder ==
  /\ Quiet
  /\ \E order \in Orders :
       LET req == createOrderRequest(
                    [baseUrl |-> baseUrl, token |-> token, clientKey |-> clientKey], order)
       IN  orderCall' =
             IF req.ok
             THEN [IdleOrder EXCEPT !.stage = "fetching", !.order = order, !.request = req.v,
                                    !.fetches = @ + 1]
             ELSE [IdleOrder EXCEPT !.stage = "settled", !.order = order,
                                    !.result = createOrder(req)]
  /\ UNCHANGED << isNode, issued, helperCall, now, verifierVars, fieldVars, jwtCall, paymentCall >>

\* fetch settles: createOrder goes on to read the body, or throws into its
\* catch block.
FetchSettles ==
  /\ orderCall.stage = "fetching"
  /\ \E settled \in FetchOutcomes :
       LET response == createOrderResponse(settled)
       IN  orderCall' =
             IF response.ok
             THEN [orderCall EXCEPT !.stage = "reading", !.fetched = settled]
             ELSE [orderCall EXCEPT !.stage = "settled", !.fetched = settled,
                                    !.result = createOrder(response)]
  /\ UNCHANGED << isNode, issued, helperCall, now, verifierVars, fieldVars, jwtCall, paymentCall >>

\* response.json() settles: createOrder returns the parsed body, or its
\* catch block returns null.
BodySettles ==
  /\ orderCall.stage = "reading"
  /\ \E streamOk \in BOOLEAN :
       orderCall' =
         [orderCall EXCEPT !.stage = "settled", !.streamOk = streamOk,
                           !.result = createOrder(ResponseJson(orderCall.fetched.v, streamOk))]
  /\ UNCHANGED << isNode, issued, helperCall, now, verifierVars, fieldVars, jwtCall, paymentCall >>

\* A verifyJWT that keeps the token it was given in this.token.
VerifyJWTKeepingToken ==
  /\ Quiet
  /\ \E in \in VerifyInputs :
       /\ jwtCall' = [IdleJwt EXCEPT !.stage = "pending", !.recipe = in.recipe,
                                     !.secret = in.secret, !.options = in.options]
       /\ token' = Tokens[in.recipe]
  /\ UNCHANGED << isNode, issued, helperCall, now, verifierVars, mode, baseUrl, clientKey,
                  orderCall, paymentCall >>

\* verifyJWT(token, secret, options) is called: it awaits jwtVerify.
VerifyJWT ==
  /\ Quiet
  /\ \E in \in VerifyInputs :
       jwtCall' = [IdleJwt EXCEPT !.stage = "pending", !.recipe = in.recipe,
                                  !.secret = in.secret, !.options = in.options]
  /\ UNCHANGED << isNode, issued, helperCall, now, verifierVars, fieldVars, orderCall, paymentCall >>

\* jwtVerify settles and verifyJWT with it.
JwtSettles ==
  /\ jwtCall.stage = "pending"
  /\ \E inner \in {jwtVerify(Tokens[jwtCall.recipe], jwtCall.secret, jwtCall.options,
                              now, isNode).out} :
       jwtCall' = [jwtCall EXCEPT !.stage = "settled", !.inner = inner,
                                  !.result = verifyJWT(inner)]
  /\ UNCHANGED << isNode, issued, helperCall, now, verifierVars, fieldVars, orderCall, paymentCall >>

\* decodeB64JSON(encoded)
DecodeB64JSON ==
  /\ Quiet
  /\ \E encoded \in EncodedInputs :
       helperCall' = [IdleHelper EXCEPT !.op = "decodeB64JSON", !.encoded = encoded,
                                        !.decoded = decodeB64JSON(encoded, isNode)]
  /\ UNCHANGED << isNode, issued, now, verifierVars, fieldVars, facadeCallVars >>

\* generateRandomId(), its two calls of Math.random().toString(36) drawn.
GenerateRandomId ==
  /\ Quiet
  /\ \E draw1 \in RandomDraws, draw2 \in RandomDraws :
       helperCall' = [IdleHelper EXCEPT !.op = "generateRandomId",
                                        !.draws = << draw1, draw2 >>,
                                        !.id = generateRandomId(draw1, draw2)]
  /\ UNCHANGED << isNode, issued, now, verifierVars, fieldVars, facadeCallVars >>

\* createPaymentUrl(options), generateRandomId drawing from Math.random().
CreatePaymentUrl ==
  /\ Quiet
  /\ \E in \in PaymentInputs :
       paymentCall' = [active |-> TRUE, input |-> in,
                       res |-> PaymentResults[in, baseUrl, isNode]]
  /\ UNCHANGED << isNode, issued, helperCall, now, verifierVars, fieldVars, orderCall, jwtCall >>

\* The caller has looked at the result of a facade call.
FacadeReturn ==
  /\ \/ paymentCall.active
     \/ orderCall.stage = "settled"
     \/ jwtCall.stage = "settled"
     \/ helperCall.op # "none"
  /\ orderCall' = IdleOrder
  /\ jwtCall' = IdleJwt
  /\ paymentCall' = IdlePayment
  /\ helperCall' = IdleHelper
  /\ UNCHANGED << isNode, issued, now, verifierVars, fieldVars >>

Next ==
  \/ Tick
  \/ SetToken
  \/ SetClient
  \/ CreateOrder
  \/ FetchSettles
  \/ BodySettles
  \/ VerifyJWT
  \/ JwtSettles
  \/ CreatePaymentUrl
  \/ DecodeB64JSON
  \/ GenerateRandomId
  \/ FacadeReturn

Spec == Init /\ [][Next]_vars

(***************************************************************************)
(* The facade when one createPaymentUrl call is made again and again       *)
(***************************************************************************)

\* Options that give the reference, the customer and the payment link.
RepeatOptions ==
  PaymentOptions(JStr(<< "a", " ", "b" >>), JNum(5), JUndefined, JUndefined, JStr(<< "r", "1" >>),
                 JObj(<< Member(KeyEmail, JStr(<< "e", "@", "x" >>)) >>), JStr(<< "L" >>))

\* The calls with these options: Math.random() may give anything.
RepeatInputs ==
  {[options |-> RepeatOptions, draws |-> << d1, d2 >>] :
     d1 \in {<< "0", ".", "4", "f", "z", "y", "o", "8", "2", "m", "v", "y", "r" >>, << "0", ".", "i" >>}, d2 \in {<< "0", ".", "9", "z", "8", "y", "7", "x", "6", "w", "5", "v", "4" >>}}

\* createPaymentUrl(RepeatOptions); the history keeps the URL of the first
\* such call and counts up to the second.
RepeatedPaymentUrl ==
  /\ Quiet
  /\ \E in \in RepeatInputs :
       \E res \in {createPaymentUrl(baseUrl, in.options, in.draws, isNode)} :
         /\ paymentCall' = [active |-> TRUE, input |-> in, res |-> res]
         /\ issued' = IF issued.calls = 0 THEN [calls |-> 1, url |-> res.v]
                      ELSE [issued EXCEPT !.calls = 2]
  /\ UNCHANGED << isNode, helperCall, now, verifierVars, fieldVars, orderCall, jwtCall >>

NextRepeat ==
  \/ Tick
  \/ SetToken
  \/ SetClient
  \/ CreateOrder
  \/ FetchSettles
  \/ BodySettles
  \/ VerifyJWT
  \/ JwtSettles
  \/ RepeatedPaymentUrl
  \/ FacadeReturn

SpecRepeat == Init /\ [][NextRepeat]_vars

(***************************************************************************)
(* The InkressAPI class of src/index.js                                    *)
(***************************************************************************)

ApiBaseUrl == << "h", "t", "t", "p", "s", ":", "/", "/", "a", "p", "i", ".", "i", "n", "k", "r", "e", "s", "s", ".", "c", "o", "m", "/", "a", "p", "i", "/", "v", "1" >>

\* new InkressAPI(token, clientKey).  The fields are kept as the texts a
\* request carries them as: "undefined" for a field that is undefined.
InkressAPI(tokenArg, clientKeyArg) ==
  [baseUrl |-> ApiBaseUrl, token |-> ToText(tokenArg), clientKey |-> ToText(clientKeyArg)]

\* The request InkressAPI.createOrder gives to fetch.
InkressAPIcreateOrderRequest(self, order) ==
  IF order.t = "circular" THEN Fail(ErrCircular, NoRequest)
  ELSE Ok([url |-> self.baseUrl \o << "/", "o", "r", "d", "e", "r", "s" >>,
           method |-> "POST",
           contentType |-> << "a", "p", "p", "l", "i", "c", "a", "t", "i", "o", "n", "/", "j", "s", "o", "n" >>,
           clientKey |-> self.clientKey,
           authorization |-> << "B", "e", "a", "r", "e", "r", " " >> \o self.token,
           body |-> JSONstringify(order)])

\* The second argument of setToken: left out, or a client key.
ApiClientKeyArgs == {JUndefined, JStr(ClientOne), JStr(ClientTwo)}

InitApi ==
  /\ isNode \in BOOLEAN
  /\ now = MsPerSecond - 1
  /\ verifyCall = IdleVerify
  /\ decodeCall = IdleDecode
  /\ issued = NotIssued
  /\ helperCall = IdleHelper
  /\ mode = JUndefined
  /\ \E k \in ApiClientKeyArgs :
       /\ baseUrl = InkressAPI(JStr(TokenOne), k).baseUrl
       /\ token = InkressAPI(JStr(TokenOne), k).token
       /\ clientKey = InkressAPI(JStr(TokenOne), k).clientKey
  /\ orderCall = IdleOrder
  /\ jwtCall = IdleJwt
  /\ paymentCall = IdlePayment

\* setToken(token, clientKey): this.token = token; this.clientKey = clientKey
ApiSetToken ==
  /\ \E t \in TokenValues, k \in ApiClientKeyArgs :
       /\ token' = t
       /\ clientKey' = ToText(k)
  /\ UNCHANGED << isNode, issued, helperCall, now, verifierVars, mode, baseUrl, facadeCallVars >>

\* InkressAPI.createOrder(order) up to its first await.
ApiCreateOrder ==
  /\ orderCall.stage = "idle"
  /\ \E order \in Orders :
       LET req == InkressAPIcreateOrderRequest(
                    [baseUrl |-> baseUrl, token |-> token, clientKey |-> clientKey], order)
       IN  orderCall' =
             IF req.ok
             THEN [IdleOrder EXCEPT !.stage = "fetching", !.order = order, !.request = req.v,
                                    !.fetches = @ + 1]
             ELSE [IdleOrder EXCEPT !.stage = "settled", !.order = order,
                                    !.result = createOrder(req)]
  /\ UNCHANGED << isNode, issued, helperCall, now, verifierVars, fieldVars, jwtCall, paymentCall >>

NextApi ==
  \/ ApiSetToken
  \/ ApiCreateOrder
  \/ FetchSettles
  \/ BodySettles
  \/ FacadeReturn

SpecApi == InitApi /\ [][NextApi]_vars

(***************************************************************************)
(* Properties of the verifier, under SpecJwt                                *)
(***************************************************************************)

\* The jwtVerify call under observation failed with new Error(message).
VerifyFailsAs(message) ==
  /\ ~verifyCall.res.out.ok
  /\ verifyCall.res.out.err.name = "Error"
  /\ verifyCall.res.out.err.message = message

VerifyReturned == verifyCall.active /\ verifyCall.res.out.ok

\* The token has three segments and a header segment that is the
\* base64url text of a JSON object.
HeaderReadable(r) ==
  /\ r.shape \in {"ok", "badPayloadChar", "badSignatureChar"}
  /\ r.hdr \in HeaderDocs

\* The allow-list the caller asked for: options.algorithms, by default
\* HS256 and HS512 (no algorithm at all for an algorithms of undefined).
AllowList(options) ==
  IF ~options.has THEN {HS256, HS512}
  ELSE IF options.defined THEN {options.algorithms[i] : i \in 1..Len(options.algorithms)}
  ELSE {}

AlgInList(r, list) ==
  /\ GetProp(r.hdr, KeyAlg).t = "string"
  /\ GetProp(r.hdr, KeyAlg).s \in list

\* The token is signed with the HMAC its header's algorithm names and the
\* secret it is verified with: header HS256 or HS512, a claims payload.
CorrectlySigned(c) ==
  /\ c.recipe.shape = "ok"
  /\ c.recipe.hdr \in SignedHeaders
  /\ c.recipe.pl \in PayloadDocs
  /\ c.recipe.sig = AlgHash(c.recipe.hdr)
  /\ c.recipe.key = c.secret

\* Date.now() in whole seconds.
NowSeconds == now \div MsPerSecond

ExpOf(r) == GetProp(r.pl, KeyExp)
NbfOf(r) == GetProp(r.pl, KeyNbf)
HasExp(r) == HasProp(r.pl, KeyExp)
HasNbf(r) == HasProp(r.pl, KeyNbf)

\* C1: jwtVerify fails with the unsupported-algorithm error for every token
\* whose header alg is not in the allow-list (options.algorithms, default
\* HS256 and HS512), whatever its signature segment holds, before any
\* signature work; the options it checks with are the caller's (or the
\* default), not widened by the token.
C1_DisallowedAlgorithmRejected ==
  (verifyCall.active /\ HeaderReadable(verifyCall.recipe)
     /\ ~AlgInList(verifyCall.recipe, AllowList(verifyCall.options)))
  => /\ VerifyFailsAs("Algorithm not supported: ")
     /\ verifyCall.res.out.err.arg = ToText(GetProp(verifyCall.recipe.hdr, KeyAlg))
     /\ verifyCall.res.calls = << "base64UrlDecode", "JSON.parse" >>
     /\ verifyCall.res.opts.defined
          => {verifyCall.res.opts.algorithms[i] :
                i \in 1..Len(verifyCall.res.opts.algorithms)}
             = AllowList(verifyCall.options)

\* C1's case: a token with alg "none" and an HMAC-SHA-512 signature under
\* the verifier's own secret is refused under the default allow-list.
C1_Witness ==
  /\ verifyCall.active
  /\ verifyCall.recipe = Recipe(HeaderOf(AlgNone), PlainPayload, "sha512", SecretK, "ok")
  /\ verifyCall.secret = SecretK
  /\ verifyCall.options = NoOptions
  /\ VerifyFailsAs("Algorithm not supported: ")

\* The secrets whose HMAC key block is the one of secret s: HMAC pads the
\* key with zero bytes, so s followed by NUL characters is the same key.
SameKey(s, t) ==
  StripTrailingZeros(textToBuffer(s)) = StripTrailingZeros(textToBuffer(t))

\* The payload's time claims let it through at the current second.
TimeValid(r) ==
  /\ HasExp(r) => NowSeconds < ExpOf(r).n
  /\ HasNbf(r) => NbfOf(r).n <= NowSeconds

\* A token signed for HS256 or HS512 over a claims payload,
\* verified under the default allow-list.
SignedCall ==
  /\ verifyCall.active
  /\ verifyCall.recipe.shape = "ok"
  /\ verifyCall.recipe.hdr \in SignedHeaders
  /\ verifyCall.recipe.pl \in PayloadDocs
  /\ verifyCall.recipe.sig = AlgHash(verifyCall.recipe.hdr)
  /\ verifyCall.options = NoOptions

C3_AsStated ==
  (SignedCall /\ CorrectlySigned(verifyCall) /\ verifyCall.secret # SecretEmpty
     /\ HasExp(verifyCall.recipe))
  => /\ NowSeconds >= ExpOf(verifyCall.recipe).n => VerifyFailsAs("Token has expired")
     /\ NowSeconds < ExpOf(verifyCall.recipe).n => ~VerifyFailsAs("Token has expired")

C7_WrongSegmentCountRejected ==
  /\ (verifyCall.active /\ SegmentCount(verifyCall.recipe) # 3)
       => /\ VerifyFailsAs("Invalid token format")
          /\ verifyCall.res.calls = << >>
  /\ (decodeCall.active /\ SegmentCount(decodeCall.recipe) # 3)
       => /\ ~decodeCall.res.ok
          /\ decodeCall.res.err = ErrInvalidTokenFormat
          /\ decodeCall.res.calls = << >>

\* C7's case: a token of four segments whose first three are a valid
\* signed token is refused by jwtVerify under the signing secret.
C7_Witness ==
  /\ verifyCall.active
  /\ verifyCall.recipe = Recipe(HeaderOf(HS256), PlainPayload, "sha256", SecretK, "extraSegment")
  /\ verifyCall.secret = SecretK
  /\ verifyCall.options = NoOptions
  /\ VerifyFailsAs("Invalid token format")
  /\ verifyCall.res.calls = << >>

\* The header or the payload segment of a three-segment token is not valid
\* base64url, or is base64url of a text that is not JSON.
BrokenSegment(r) ==
  /\ SegmentCount(r) = 3
  /\ \/ r.shape \in {"badHeaderChar", "badPayloadChar"}
     \/ r.hdr = JUndefined
     \/ r.pl = JUndefined

\* C8 as stated: a three-segment token whose header or payload segment is
\* not valid base64url or not JSON makes jwtVerify and decodeJWT fail with
\* the error of a wrong segment count, Error("Invalid token format").
C8_AsStated ==
  /\ (verifyCall.active /\ BrokenSegment(verifyCall.recipe))
       => ~verifyCall.res.out.ok /\ verifyCall.res.out.err = ErrInvalidTokenFormat
  /\ (decodeCall.active /\ BrokenSegment(decodeCall.recipe))
       => ~decodeCall.res.ok /\ decodeCall.res.err = ErrInvalidTokenFormat

\* C9 as stated: whatever options.algorithms the caller passes, jwtVerify
\* returns a payload only for a header alg of HS256 or HS512, having
\* computed HMAC-SHA-256 exactly when alg is HS256 and HMAC-SHA-512
\* exactly when alg is HS512.
C9_AsStated ==
  VerifyReturned =>
    LET alg == GetProp(verifyCall.recipe.hdr, KeyAlg)
        used(h) == \E i \in 1..Len(verifyCall.res.calls) : verifyCall.res.calls[i] = h
    IN  /\ alg.t = "string" /\ alg.s \in {HS256, HS512}
        /\ used("hmacSign:sha256") <=> alg.s = HS256
        /\ used("hmacSign:sha512") <=> alg.s = HS512

\* The two buffers verifySignature hands to timingSafeEqual in a jwtVerify
\* call: the signature the token carries and the one hmacSign computes.
ComparisonRan(c) ==
  c.active /\ \E i \in 1..Len(c.res.calls) : c.res.calls[i] = "timingSafeEqual"
ActualSignature(c) == base64UrlToBuffer(split(Tokens[c.recipe])[3], isNode).v
ExpectedSignature(c) ==
  LET parts == split(Tokens[c.recipe])
  IN  hmacSign(GetProp(c.recipe.hdr, KeyAlg).s, c.secret,
               parts[1] \o << "." >> \o parts[2], isNode).v

\* The first position where two buffers of one length differ, and one
\* past the end when they are equal.
FirstDifference(a, b) ==
  LET differ == {i \in 1..Len(a) : a[i] # b[i]}
  IN  IF differ = {} THEN Len(a) + 1 ELSE CHOOSE i \in differ : \A j \in differ : i <= j

C18_AsStated ==
  verifyCall.active =>
    /\ verifyCall.res.out
         = jwtVerify(Tokens[verifyCall.recipe], verifyCall.secret, verifyCall.options,
                     now, ~isNode).out
    /\ SegmentCount(verifyCall.recipe) = 3
         => base64UrlToBuffer(split(Tokens[verifyCall.recipe])[3], TRUE)
              = base64UrlToBuffer(split(Tokens[verifyCall.recipe])[3], FALSE)

\* The token has three segments, of which the first two are the base64url
\* texts of JSON values.
TwoJsonSegments(r) ==
  /\ r.shape \in {"ok", "badSignatureChar"}
  /\ r.hdr # JUndefined
  /\ r.pl # JUndefined

\* C21: decodeJWT returns the header and the payload of every
\* three-segment token whose first two segments are JSON, whatever the
\* signature segment, the key it was signed with, the alg of the header
\* and the exp and nbf of the payload are.
C21_DecodeWithoutVerifying ==
  (decodeCall.active /\ TwoJsonSegments(decodeCall.recipe))
  => /\ decodeCall.res.ok
     /\ decodeCall.res.header = decodeCall.recipe.hdr
     /\ decodeCall.res.payload = decodeCall.recipe.pl

\* C21's case: a token of alg "none" with a signature that is no
\* signature of it is decoded.
C21_Witness ==
  /\ decodeCall.active
  /\ decodeCall.recipe.hdr = HeaderOf(AlgNone)
  /\ decodeCall.recipe.sig = "garbage"
  /\ decodeCall.res.ok
  /\ decodeCall.res.header = HeaderOf(AlgNone)

\* The signature segment was made with another key than the secret the
\* token is verified with, with another hash than the header names, or is
\* no HMAC at all.
WrongSignature(c) ==
  \/ c.recipe.sig = "garbage"
  \/ ~SameKey(c.recipe.key, c.secret)
  \/ c.recipe.hdr \in SignedHeaders /\ c.recipe.sig # AlgHash(c.recipe.hdr)

\* The payload's exp is at or before the current second, and its nbf is
\* after it.
ExpiredAndNotYetValid(r) ==
  /\ HasExp(r) /\ ExpOf(r).n <= NowSeconds
  /\ HasNbf(r) /\ NowSeconds < NbfOf(r).n

\* A token with a disallowed alg and a wrong signature fails as an
\* unsupported algorithm.
AlgorithmBeforeSignature ==
  (verifyCall.active /\ HeaderReadable(verifyCall.recipe) /\ WrongSignature(verifyCall)
     /\ ~AlgInList(verifyCall.recipe, AllowList(verifyCall.options)))
  => VerifyFailsAs("Algorithm not supported: ")

\* A token with a wrong signature does not fail as expired or as not yet
\* valid, and its payload is not returned.
SignatureBeforeClaims ==
  (verifyCall.active /\ HeaderReadable(verifyCall.recipe) /\ WrongSignature(verifyCall))
  => /\ ~verifyCall.res.out.ok
     /\ verifyCall.res.out.err \notin {ErrExpired, ErrNotYetValid}

\* C29: jwtVerify checks the segment count, the allow-list, the signature,
\* exp and nbf in this order and reports the first check that fails: a
\* disallowed alg wins over a wrong signature, a wrong signature over the
\* time claims, and a correctly signed token that is both expired and not
\* yet valid fails as expired.
C29_AsStated ==
  /\ AlgorithmBeforeSignature
  /\ SignatureBeforeClaims
  /\ (SignedCall /\ CorrectlySigned(verifyCall) /\ verifyCall.secret # SecretEmpty
        /\ ExpiredAndNotYetValid(verifyCall.recipe))
     => VerifyFailsAs("Token has expired")

(***************************************************************************)
(* Properties of the facade, under Spec                                    *)
(***************************************************************************)

\* C5: the asynchronous verifyJWT never rejects: once jwtVerify has
\* settled, the promise of verifyJWT is fulfilled, with the payload
\* jwtVerify resolved to or with null when jwtVerify failed, whatever the
\* failure.
C5_VerifyJWTNeverRejects ==
  jwtCall.stage = "settled"
  => /\ jwtCall.result.state = "fulfilled"
     /\ jwtCall.inner.ok => jwtCall.result.v = jwtCall.inner.v
     /\ ~jwtCall.inner.ok => jwtCall.result.v = JNull

\* C5's case: jwtVerify failed on an expired token and verifyJWT resolved
\* to null.
C5_Witness ==
  /\ jwtCall.stage = "settled"
  /\ jwtCall.recipe = Recipe(HeaderOf(HS512), PayloadOf(1, Absent), "sha512", SecretK, "ok")
  /\ jwtCall.inner = Fail(ErrExpired, JUndefined)
  /\ jwtCall.result = Fulfilled(JNull)

\* The body of a response is the JSON text of some document.
ParsableBody(body) == \E d \in ResponseDocs : body = JSONstringify(d)

\* C6: createOrder never rejects: once settled its promise is fulfilled;
\* it is null after a transport failure, a status outside 200..299 or a
\* body that cannot be read as JSON, and a value other than null is the
\* parsed body of a response with a success status.
C6_CreateOrderNeverRejects ==
  orderCall.stage = "settled"
  => /\ orderCall.result.state = "fulfilled"
     /\ (\/ orderCall.request = NoRequest
         \/ ~orderCall.fetched.ok
         \/ ~ResponseOk(orderCall.fetched.v.status)
         \/ ~orderCall.streamOk
         \/ ~ParsableBody(orderCall.fetched.v.body))
        => orderCall.result.v = JNull
     /\ orderCall.result.v # JNull
        => /\ orderCall.fetched.ok
           /\ ResponseOk(orderCall.fetched.v.status)
           /\ JSONstringify(orderCall.result.v) = orderCall.fetched.v.body

\* C6's case: the API answered 404 with a JSON body and createOrder
\* resolved to null.
C6_Witness ==
  /\ orderCall.stage = "settled"
  /\ orderCall.fetched.ok
  /\ orderCall.fetched.v.status = 404
  /\ ParsableBody(orderCall.fetched.v.body)
  /\ orderCall.result = Fulfilled(JNull)

\* The options give no username, or an empty one.
UsernameMissing(options) ==
  GetProp(options, KeyUsername) \in {JUndefined, JNull, JStr(<< >>)}

\* C10: createPaymentUrl throws an Error and returns no URL whenever
\* options.username is missing or empty.
C10_UsernameRequired ==
  (paymentCall.active /\ UsernameMissing(paymentCall.input.options))
  => /\ ~paymentCall.res.ok
     /\ paymentCall.res.err.name = "Error"
     /\ paymentCall.res.v = << >>

\* C10's case: options with a valid total and an empty username are
\* refused.
C10_Witness ==
  /\ paymentCall.active
  /\ GetProp(paymentCall.input.options, KeyUsername) = JStr(<< >>)
  /\ GetProp(paymentCall.input.options, KeyTotal) = JNum(5)
  /\ ~paymentCall.res.ok
  /\ paymentCall.res.err = ErrUsernameRequired

\* The total is a number other than NaN and Infinity.
FiniteNumber(val) == val.t = "number" /\ val.s = << >>

\* C11 as stated: with a username given, createPaymentUrl returns a URL
\* exactly when options.total is a finite number, and throws for a total
\* that is absent, null, NaN, infinite or not of numeric type.
C11_AsStated ==
  (paymentCall.active /\ ~UsernameMissing(paymentCall.input.options))
  => (paymentCall.res.ok
        <=> FiniteNumber(GetProp(paymentCall.input.options, KeyTotal)))

\* The options name a merchant and give a finite number as the total.
ValidOptions(options) ==
  ~UsernameMissing(options) /\ FiniteNumber(GetProp(options, KeyTotal))

\* The host of the payment pages for a base URL of the facade.
HostBase(url) ==
  IF url = LiveBaseUrl THEN << "h", "t", "t", "p", "s", ":", "/", "/", "i", "n", "k", "r", "e", "s", "s", ".", "c", "o", "m" >>
  ELSE IF url = TestBaseUrl THEN << "h", "t", "t", "p", "s", ":", "/", "/", "d", "e", "v", ".", "i", "n", "k", "r", "e", "s", "s", ".", "c", "o", "m" >>
  ELSE url

\* options.payment_link_id || ''
LinkToken(options) ==
  IF Truthy(GetProp(options, KeyPaymentLinkId))
  THEN ToText(GetProp(options, KeyPaymentLinkId)) ELSE << >>

\* The payment URL of a merchant on a host, for a link and an order token.
PaymentUrl(host, username, link, orderToken) ==
  host \o << "/", "m", "e", "r", "c", "h", "a", "n", "t", "s", "/" >> \o encodeURIComponent(username)
       \o << "/", "o", "r", "d", "e", "r", "?", "l", "i", "n", "k", "_", "t", "o", "k", "e", "n", "=" >> \o link \o << "&", "o", "r", "d", "e", "r", "_", "t", "o", "k", "e", "n", "=" >> \o orderToken

\* C12: for valid options createPaymentUrl returns, and what it returns
\* is the host of the configured base URL (the base URL without /api/v1),
\* "/merchants/", the URL-encoded username, "/order?link_token=", the
\* payment_link_id or nothing, "&order_token=" and the order token.
C12_PaymentUrlFormat ==
  paymentCall.active =>
    /\ ValidOptions(paymentCall.input.options) => paymentCall.res.ok
    /\ paymentCall.res.ok =>
         paymentCall.res.v
           = PaymentUrl(HostBase(baseUrl),
                        ToText(GetProp(paymentCall.input.options, KeyUsername)),
                        LinkToken(paymentCall.input.options),
                        encodeJSONToB64(paymentCall.res.data, isNode).v)

\* C12's case: a URL on the test host for a merchant whose name has a
\* space in it, and a URL that carries a payment link.
C12_Witness ==
  /\ paymentCall.active
  /\ paymentCall.res.ok
  /\ baseUrl = TestBaseUrl
  /\ GetProp(paymentCall.input.options, KeyUsername) = JStr(<< "a", " ", "b" >>)
  /\ SubSeq(paymentCall.res.v, 1, 67)
       = << "h", "t", "t", "p", "s", ":", "/", "/", "d", "e", "v", ".", "i", "n", "k", "r", "e", "s", "s", ".", "c", "o", "m", "/", "m", "e", "r", "c", "h", "a", "n", "t", "s", "/", "a", "%", "2", "0", "b", "/", "o", "r", "d", "e", "r", "?", "l", "i", "n", "k", "_", "t", "o", "k", "e", "n", "=", "&", "o", "r", "d", "e", "r", "_", "t", "o", "k" >>

\* The value of a query parameter of a URL, as written in the URL: what
\* follows "name=" up to the next "&".
QueryParam(url, name) ==
  LET pattern == name \o << "=" >>
      hits == {i \in 2..(Len(url) - Len(pattern) + 1) :
                 /\ url[i - 1] \in {"?", "&"}
                 /\ SubSeq(url, i, i + Len(pattern) - 1) = pattern}
      at == (CHOOSE i \in hits : \A j \in hits : i <= j) + Len(pattern)
      ends == {i \in at..Len(url) : url[i] = "&"}
      stop == IF ends = {} THEN Len(url) + 1
              ELSE CHOOSE i \in ends : \A j \in ends : i <= j
  IN  IF hits = {} THEN << >> ELSE SubSeq(url, at, stop - 1)

\* The order a returned payment URL carries, and its link token.
DecodedOrder ==
  decodeB64JSON(QueryParam(paymentCall.res.v, << "o", "r", "d", "e", "r", "_", "t", "o", "k", "e", "n" >>), isNode)
LinkTokenOfUrl == QueryParam(paymentCall.res.v, << "l", "i", "n", "k", "_", "t", "o", "k", "e", "n" >>)

\* The order the caller described: total as supplied, the optional texts
\* as supplied or defaulted (the reference the call drew when none was
\* supplied), and the fields the caller gave the customer over the four
\* empty default fields.
SuppliedOrder(options, drawn) ==
  JObj(<< Member(KeyTotal, GetProp(options, KeyTotal)),
          Member(KeyCurrencyCode,
                 DefaultTo(GetProp(options, KeyCurrencyCode), JStr(<< "J", "M", "D" >>))),
          Member(KeyTitle,
                 DefaultTo(GetProp(options, KeyTitle),
                           JStr(<< "P", "a", "y", "m", "e", "n", "t", " ", "t", "o", " " >> \o ToText(GetProp(options, KeyUsername))))),
          Member(KeyReferenceId, DefaultTo(GetProp(options, KeyReferenceId), drawn)),
          Member(KeyCustomer,
                 ObjectAssign(defaultCustomer,
                              Options(DefaultTo(GetProp(options, KeyCustomer),
                                                JObj(<< >>)).m))) >>)

\* C13 as stated: for valid options, decodeB64JSON of the order_token
\* parameter of the returned URL is exactly the total, currency_code,
\* title, reference_id and customer supplied, with the defaults applied.
C13_AsStated ==
  (paymentCall.active /\ ValidOptions(paymentCall.input.options))
  => /\ paymentCall.res.ok
     /\ DecodedOrder
          = SuppliedOrder(paymentCall.input.options,
                          GetProp(paymentCall.res.data, KeyReferenceId))

\* An optional field of the order is the caller's value when the caller
\* gave one, and the default otherwise.
SuppliedOrDefault(order, key, dflt) ==
  LET given == GetProp(paymentCall.input.options, key)
  IN  GetProp(order, key) = (IF given.t = "undefined" THEN dflt ELSE given)

\* C14: in the URL createPaymentUrl returns, an absent currency_code is
\* "JMD", an absent title "Payment to " and the username, an absent
\* reference_id the identifier generateRandomId drew, an absent customer
\* the empty customer, an absent payment link an empty link_token; and
\* every optional field the caller gave carries the caller's value.
C14_DefaultsApplied ==
  (paymentCall.active /\ paymentCall.res.ok) =>
    LET options == paymentCall.input.options
        order == DecodedOrder
        customer == GetProp(options, KeyCustomer)
        link == GetProp(options, KeyPaymentLinkId)
    IN  /\ SuppliedOrDefault(order, KeyCurrencyCode, JStr(<< "J", "M", "D" >>))
        /\ SuppliedOrDefault(order, KeyTitle,
                             JStr(<< "P", "a", "y", "m", "e", "n", "t", " ", "t", "o", " " >> \o ToText(GetProp(options, KeyUsername))))
        /\ SuppliedOrDefault(order, KeyReferenceId,
                             JStr(generateRandomId(paymentCall.input.draws[1],
                                                   paymentCall.input.draws[2])))
        /\ customer.t = "undefined" => GetProp(order, KeyCustomer) = defaultCustomer
        /\ \A i \in 1..Len(customer.m) :
             customer.m[i].v.t # "undefined"
             => GetProp(GetProp(order, KeyCustomer), customer.m[i].k) = customer.m[i].v
        /\ LinkTokenOfUrl = (IF link.t = "undefined" THEN << >> ELSE ToText(link))

\* C14's case: a call that gives the currency, the title, the reference
\* and the payment link and leaves the customer out.
C14_Witness ==
  /\ paymentCall.active
  /\ paymentCall.res.ok
  /\ GetProp(paymentCall.input.options, KeyCurrencyCode) = JStr(<< "U", "S", "D" >>)
  /\ GetProp(paymentCall.input.options, KeyTitle) = JStr(<< "T" >>)
  /\ GetProp(paymentCall.input.options, KeyReferenceId) = JStr(<< "r", "1" >>)
  /\ GetProp(paymentCall.input.options, KeyPaymentLinkId) = JStr(<< "L" >>)
  /\ GetProp(DecodedOrder, KeyCurrencyCode) = JStr(<< "U", "S", "D" >>)
  /\ GetProp(DecodedOrder, KeyCustomer) = defaultCustomer
  /\ LinkTokenOfUrl = << "L" >>

\* The four fields of a customer.
CustomerFields == {KeyFirstName, KeyLastName, KeyEmail, KeyPhone}

\* C15 as stated: the customer encoded in the order token carries all
\* four fields, each with the caller's value when the caller gave a
\* non-empty one and with the empty string otherwise.
C15_AsStated ==
  (paymentCall.active /\ paymentCall.res.ok) =>
    LET given == GetProp(paymentCall.input.options, KeyCustomer)
        encoded == GetProp(DecodedOrder, KeyCustomer)
    IN  \A f \in CustomerFields :
          /\ HasProp(encoded, f)
          /\ GetProp(encoded, f)
               = (IF given.t = "object" /\ Truthy(GetProp(given, f))
                  THEN GetProp(given, f) ELSE JStr(<< >>))

\* C16: a createPaymentUrl call with options that fix reference_id and
\* customer returns the URL the first call with these options returned,
\* whatever setToken, setClient, createOrder and verifyJWT calls were made
\* since.
C16_PaymentUrlDeterministic ==
  (paymentCall.active /\ issued.calls >= 1)
  => paymentCall.res.ok /\ paymentCall.res.v = issued.url

\* C16's case: the call made a second time, on a facade whose token and
\* client key have been set, returns the URL of the first call.
C16_Witness ==
  /\ paymentCall.active
  /\ issued.calls = 2
  /\ token = TokenTwo
  /\ clientKey = ClientTwo
  /\ paymentCall.res.ok
  /\ paymentCall.res.v = issued.url

\* C19 as stated: a setToken(t) call sets the token and leaves the client
\* key and the base URL as they are, and a setClient(k) call sets the
\* client key and leaves the token and the base URL as they are, in the
\* facade and in the InkressAPI class alike.
C19_AsStated ==
  [][/\ (SetToken \/ ApiSetToken) => (clientKey' = clientKey /\ baseUrl' = baseUrl)
     /\ SetClient => (token' = token /\ baseUrl' = baseUrl)]_vars

\* C20: the base URL of the facade is the one its mode selected at
\* construction: https://inkress.com/api/v1 for "live" and for no mode,
\* https://dev.inkress.com/api/v1 for "test"; it is never anything but
\* one of the two.
C20_BaseUrlByMode ==
  /\ mode \in {JUndefined, JStr(ModeLive)} => baseUrl = << "h", "t", "t", "p", "s", ":", "/", "/", "i", "n", "k", "r", "e", "s", "s", ".", "c", "o", "m", "/", "a", "p", "i", "/", "v", "1" >>
  /\ mode = JStr(ModeTest) => baseUrl = << "h", "t", "t", "p", "s", ":", "/", "/", "d", "e", "v", ".", "i", "n", "k", "r", "e", "s", "s", ".", "c", "o", "m", "/", "a", "p", "i", "/", "v", "1" >>
  /\ baseUrl \in {<< "h", "t", "t", "p", "s", ":", "/", "/", "i", "n", "k", "r", "e", "s", "s", ".", "c", "o", "m", "/", "a", "p", "i", "/", "v", "1" >>, << "h", "t", "t", "p", "s", ":", "/", "/", "d", "e", "v", ".", "i", "n", "k", "r", "e", "s", "s", ".", "c", "o", "m", "/", "a", "p", "i", "/", "v", "1" >>}

\* C20's case: a facade constructed in test mode, after a setToken call
\* and with a createOrder request on its way to the test host.
C20_Witness ==
  /\ mode = JStr(ModeTest)
  /\ token = TokenTwo
  /\ orderCall.stage = "fetching"
  /\ orderCall.request.url = << "h", "t", "t", "p", "s", ":", "/", "/", "d", "e", "v", ".", "i", "n", "k", "r", "e", "s", "s", ".", "c", "o", "m", "/", "a", "p", "i", "/", "v", "1", "/", "a", "p", "i", "/", "v", "1" >>
  /\ baseUrl = << "h", "t", "t", "p", "s", ":", "/", "/", "d", "e", "v", ".", "i", "n", "k", "r", "e", "s", "s", ".", "c", "o", "m", "/", "a", "p", "i", "/", "v", "1" >>

\* A createOrder call is waiting for fetch or for the body of the response.
InFlight == orderCall.stage \in {"fetching", "reading"}

\* C22: the request of a createOrder call carries "Bearer " and the token,
\* and the client key, that the facade holds when createOrder is called;
\* while the request is in flight no step, a setToken or setClient
\* included, changes it, and the call settles with what the response
\* alone determines.
C22_CredentialsReadAtCall ==
  [][/\ (orderCall.stage = "idle" /\ orderCall'.stage = "fetching")
          => /\ orderCall'.request.authorization = << "B", "e", "a", "r", "e", "r", " " >> \o token
             /\ orderCall'.request.clientKey = clientKey
     /\ (InFlight /\ orderCall'.stage # "idle")
          => orderCall'.request = orderCall.request
     /\ (InFlight /\ orderCall'.stage = "settled")
          => orderCall'.result
               = (IF /\ orderCall'.fetched.ok
                     /\ ResponseOk(orderCall'.fetched.v.status)
                     /\ orderCall'.streamOk
                     /\ ParsableBody(orderCall'.fetched.v.body)
                  THEN Fulfilled(JSONparse(orderCall'.fetched.v.body).v)
                  ELSE Fulfilled(JNull))]_vars

\* C22's case: a request made with token t1 and client key c1 is in
\* flight, and the facade has since been given token t2 and client key c2.
C22_Witness ==
  /\ orderCall.stage = "fetching"
  /\ orderCall.request.authorization = << "B", "e", "a", "r", "e", "r", " ", "t", "1" >>
  /\ orderCall.request.clientKey = ClientOne
  /\ token = TokenTwo
  /\ clientKey = ClientTwo

\* The request of a settled createOrder call did not produce a parsed body:
\* fetch rejected, the status was not a success, or the body did not parse.
OrderFailed(call) ==
  ~ /\ call.fetched.ok
    /\ ResponseOk(call.fetched.v.status)
    /\ call.streamOk
    /\ ParsableBody(call.fetched.v.body)

\* C23: a createOrder call calls fetch at most once; only the step that
\* invokes createOrder issues a request; a call whose request failed
\* settles with null without a further request, and a settled call issues
\* none until it has returned.
C23_AtMostOneRequest ==
  [][/\ orderCall'.fetches <= 1
     /\ (orderCall'.fetches > orderCall.fetches) => orderCall.stage = "idle"
     /\ (InFlight /\ orderCall'.stage = "settled" /\ OrderFailed(orderCall'))
          => /\ orderCall'.result = Fulfilled(JNull)
             /\ orderCall'.fetches = orderCall.fetches
     /\ (orderCall.stage = "settled" /\ orderCall'.stage # "idle")
          => orderCall' = orderCall]_vars

\* C23's case: the one request of a call came back with status 404 and the
\* call has settled with null.
C23_Witness ==
  /\ orderCall.stage = "settled"
  /\ orderCall.fetches = 1
  /\ orderCall.fetched.ok
  /\ orderCall.fetched.v.status = 404
  /\ orderCall.result = Fulfilled(JNull)

\* The facade with a transport that settles every request and every body read
\* it has started.
SpecLive == Init /\ [][Next]_vars /\ WF_vars(FetchSettles) /\ WF_vars(BodySettles)

\* The promise of the createOrder call has been resolved.
Resolved == orderCall.stage = "settled" /\ orderCall.result # Unsettled

\* C24: when fetch and response.json() eventually settle, every createOrder
\* call in flight is eventually resolved; and nothing but the settling of
\* fetch takes a call out of its wait for the response: the facade has no
\* timeout and no cancellation.
C24_CreateOrderResolves ==
  /\ InFlight ~> Resolved
  /\ [][(orderCall.stage = "fetching" /\ orderCall'.stage # "fetching")
          => /\ orderCall'.stage \in {"reading", "settled"}
             /\ orderCall'.fetched \in FetchOutcomes]_vars

\* C24's case: a call that waited for fetch and for the body is resolved.
C24_Witness ==
  /\ Resolved
  /\ orderCall.fetches = 1
  /\ orderCall.fetched.ok
  /\ orderCall.result # Fulfilled(JNull)


(***************************************************************************)
(* The earlier, synchronous verifyJWT(token, secret) of the facade.        *)
(***************************************************************************)

\* What a function that is not async hands to its caller.
Returned(val) == [state |-> "returned", v |-> val, err |-> NoError]

\* A Promise as a value: an object, truthy and never null.
JPromise(settlement) == [t |-> "promise", settled |-> settlement]

\* verifyJWT(token, secret): try { const decoded = jwtVerify(token, secret);
\* return decoded } catch { return null }.  jwtVerify is an async function:
\* the call never throws, it returns a promise, and with no await that
\* promise is what verifyJWT returns; a rejection settles it after the try
\* block has been left.
verifyJWTSync(completion) ==
  Returned(JPromise(IF completion.ok THEN Fulfilled(completion.v)
                    ELSE Rejected(completion.err)))

\* verifyJWT(token, secret) is called and returns.
VerifyJWTSync ==
  /\ Quiet
  /\ \E in \in VerifyInputs :
       /\ in.options = NoOptions
       /\ \E inner \in {jwtVerify(Tokens[in.recipe], in.secret, NoOptions, now, isNode).out} :
            jwtCall' = [IdleJwt EXCEPT !.stage = "settled", !.recipe = in.recipe,
                                       !.secret = in.secret, !.inner = inner,
                                       !.result = verifyJWTSync(inner)]
  /\ UNCHANGED << isNode, issued, helperCall, now, verifierVars, fieldVars, orderCall, paymentCall >>

NextSync ==
  \/ Tick
  \/ VerifyJWTSync
  \/ FacadeReturn

SpecSync == Init /\ [][NextSync]_vars

\* C25: the synchronous verifyJWT returns null for every token jwtVerify
\* rejects and the decoded payload for every token it accepts.
C25_AsStated ==
  jwtCall.stage = "settled"
    => jwtCall.result = (IF jwtCall.inner.ok THEN Returned(jwtCall.inner.v)
                         ELSE Returned(JNull))


(***************************************************************************)
(* Properties of decodeB64JSON and generateRandomId, under Spec            *)
(***************************************************************************)

\* A text is base64 (RFC 4648, section 4), with its padding or without:
\* characters of the standard alphabet only, then at most two "=" that fill
\* the text to a multiple of four.
IsBase64(encoded) ==
  LET body == RemoveAll(encoded, "=")
      pads == Len(encoded) - Len(body)
  IN  /\ \A i \in 1..Len(body) : body[i] \in B64Chars
      /\ SubSeq(encoded, 1, Len(body)) = body
      /\ Len(body) % 4 # 1
      /\ pads = 0 \/ (pads <= 2 /\ Len(encoded) % 4 = 0)

\* A text is the base64 of a JSON text: base64 of bytes that are UTF-8 (of
\* the bytes the model feeds in, the ASCII ones) and spell a JSON value.
IsEncodedJson(encoded) ==
  LET bytes == BufferFromBase64(encoded)
  IN  /\ IsBase64(encoded)
      /\ \A i \in 1..Len(bytes) : bytes[i] < 128
      /\ JSONparseText(bufferToText(bytes)).ok

\* C26: decodeB64JSON returns the JSON value of a text that is the base64
\* of JSON, and undefined for every other text.
C26_AsStated ==
  helperCall.op = "decodeB64JSON"
    => helperCall.decoded
         = (IF IsEncodedJson(helperCall.encoded)
            THEN JSONparseText(bufferToText(BufferFromBase64(helperCall.encoded))).v
            ELSE JUndefined)


\* The characters of a base-36 numeral.
Base36Chars == {Ascii[i] : i \in (17..26) \cup (66..91)}

\* C27: every identifier generateRandomId returns consists of lowercase
\* letters and digits and is 20 to 24 characters long.
C27_AsStated ==
  helperCall.op = "generateRandomId"
    => /\ \A i \in 1..Len(helperCall.id) : helperCall.id[i] \in Base36Chars
       /\ Len(helperCall.id) >= 20
       /\ Len(helperCall.id) <= 24


(***************************************************************************)
(* Frame properties of the facade, under Spec                              *)
(***************************************************************************)

\* this.baseUrl, this.token and this.clientKey
Fields == << baseUrl, token, clientKey >>

\* C28: a step of createPaymentUrl, verifyJWT, decodeB64JSON or
\* generateRandomId calls fetch for no one and leaves baseUrl, token and
\* clientKey as they are; a step of createOrder leaves the three fields as
\* they are, and only the step that invokes createOrder issues a request.
C28_LocalComputations ==
  [][/\ (paymentCall' # paymentCall \/ jwtCall' # jwtCall \/ helperCall' # helperCall)
          => /\ Fields' = Fields
             /\ orderCall'.fetches <= orderCall.fetches
     /\ (orderCall' # orderCall) => Fields' = Fields
     /\ (orderCall'.fetches > orderCall.fetches)
          => /\ orderCall.stage = "idle"
             /\ orderCall'.stage = "fetching"
             /\ paymentCall' = paymentCall
             /\ jwtCall' = jwtCall
             /\ helperCall' = helperCall]_vars

\* C28's case: on a facade that was given token t2, a createPaymentUrl call
\* has returned a URL and no request has been issued.
C28_Witness ==
  /\ paymentCall.active
  /\ paymentCall.res.ok
  /\ token = TokenTwo
  /\ orderCall.fetches = 0


\* The scheme and authority of a URL: what comes before its third "/".
HostOf(url) ==
  LET slashes == {i \in 1..Len(url) : url[i] = "/"}
      third == CHOOSE i \in slashes : Cardinality({j \in slashes : j < i}) = 2
  IN  IF Cardinality(slashes) < 3 THEN url ELSE SubSeq(url, 1, third - 1)

\* C30: in every reachable state baseUrl is the URL the constructor chose
\* for the mode it was given, one of the two fixed base URLs, and no step
\* changes it; the request of every createOrder call and every payment URL
\* the facade returns are on the host of that URL.
C30_BaseUrlFixed ==
  /\ [](/\ baseUrl = Inkress([token |-> JUndefined, clientKey |-> JUndefined,
                              mode |-> mode]).baseUrl
        /\ baseUrl \in BaseUrls
        /\ orderCall.request # NoRequest
             => HostOf(orderCall.request.url) = HostOf(baseUrl)
        /\ (paymentCall.active /\ paymentCall.res.ok)
             => HostOf(paymentCall.res.v) = HostOf(baseUrl))
  /\ [][baseUrl' = baseUrl]_vars

\* C30's case: a facade constructed in test mode has been given another
\* token and another client key and returns a payment URL on the test host.
C30_Witness ==
  /\ mode = JStr(ModeTest)
  /\ token = TokenTwo
  /\ clientKey = ClientTwo
  /\ paymentCall.active
  /\ paymentCall.res.ok
  /\ HostOf(paymentCall.res.v) = << "h", "t", "t", "p", "s", ":", "/", "/", "d", "e", "v", ".", "i", "n", "k", "r", "e", "s", "s", ".", "c", "o", "m" >>

====
